---- MODULE Spec2Model ----
(***************************************************************************)
(* A model of the hgdb debugger front-ends.                                *)
(*                                                                         *)
(*  - Spec        : the VS Code adapter, HGDBRuntime (the WebSocket/token  *)
(*                  version, src/vscode/src/hgdbRuntime.ts lines 1-459)    *)
(*                  together with the event handlers that HGDBDebugSession *)
(*                  registers on it (src/vscode/src/hgdbDebug.ts).         *)
(*  - ConsoleSpec : the console REPL (src/console/hgdb).                   *)
(*  - SessionSpec : HGDBDebugSession handling DAP requests (threads, data  *)
(*                  breakpoints) between the frames of the simulator.      *)
(*  - ReportSpec  : a turn of the loop of setBreakPointsRequest.           *)
(*  - FrameIdSpec : the packing of instance id and stack index in a frame  *)
(*                  id, and its unpacking.                                 *)
(*  - ReplSpec    : the console REPL, sessions of a few commands.          *)
(*  - StackSpec   : stackTraceRequest over the frames of a break event.    *)
(*  - VariablesSpec : variablesRequest and setVariableRequest on a scope.  *)
(*  - ParseSpec   : parse_local of the console on flat local variables.    *)
(*  - IndexSpec   : index_filenames of the console on a file list.         *)
(*  - FlowSpec    : the DAP requests that resume or end the simulation.    *)
(*  - TransportSpec : launch, connect failure and close of the WebSocket,  *)
(*                  with the setImmediate callbacks run fairly.            *)
(*  - ProtocolSpec : the message handler on frames that are not JSON    *)
(*                  and on break events without a file name.               *)
(*  - InstancesSpec : break events that carry a list of instances.         *)
(*  - ScopesSpec  : stackTraceRequest over an instance of several scopes.  *)
(*  - HandlesSpec : scopesRequest and variablesRequest on the maps of the  *)
(*                  runtime, across break events.                          *)
(*  - LoopSpec    : the loop of setBreakPointsRequest and its response.    *)
(***************************************************************************)
EXTENDS Integers, Sequences, FiniteSets, TLC

\* ------------------------------------------------------------------ bounds
MaxRequests == 2   \* operations the front-end starts on the runtime, once connected or not
MaxFrames == 2     \* frames the simulator sends (responses and break events)
MaxCommands == 3   \* requests the console sends in one session

VARIABLES
    \* ---- HGDBRuntime
    connection,                        \* this._connection is set
    connected,                         \* this._connected
    token_count,                       \* this._token_count
    token_callbacks,                   \* this._token_callbacks (a JS Map object)
    breakPoints,                       \* this._breakPoints: id -> record
    current_local_variables,           \* Map instance_id -> array of scopes
    current_generator_variables,       \* Map instance_id -> array of scopes
    current_generator_names,           \* Map instance_id -> instance name
    current_breakpoint_instance_id,
    current_filename,
    current_line_num,
    immediate,                         \* callbacks queued by setImmediate (FIFO)
    \* ---- HGDBDebugSession
    threads,                           \* this._threads
    ide_events,                        \* events handed to the IDE, in order
    \* ---- the socket and the observers of the run
    calls,                             \* payloads passed to send_payload, in order
    sent,                              \* payloads written to the socket, in order
    invoked,                           \* continuations that ran, in order
    answered,                          \* issued tokens a response has arrived for
    faults,                            \* TypeErrors thrown out of the message handler
    breaks,                            \* number of break events given to on_breakpoint
    last_break,                        \* the payload of the last of them
    frames,                            \* number of frames received
    last_frame,                        \* text, type, token and status of the frame handled last
    \* ---- console (DebuggingInformation and the REPL loop)
    current_scope,
    namespace_id,
    current_breakpoint_id,
    current_breakpoint_type,
    current_instance_index,
    current_breakpoint_resp,
    set_values,
    console_requests,                  \* requests the console sent to the server
    parsed,                            \* number of break events given to parse
    repl,                              \* the REPL loop: "prompt", "exited" or "crashed"
    \* ---- HGDBDebugSession, the handlers of the DAP requests
    dap_requests,                      \* number of DAP requests received
    responses,                         \* responses handed to the IDE, in order
    data_requests,                     \* the setDataBreakpoints handlings begun
    data_breakpoints,                  \* data breakpoints inserted in the simulator
    bp_entry,                          \* an entry of a setBreakpoints request, verified
    breakpoints_result,                \* what the handling reports and sets for it
    stack_frame,                       \* a frame of stack(): instance, scope, index
    scope_ids,                         \* what scopesRequest reads out of a frame id
    \* ---- HGDBDebugSession, the variables of a scope
    scope_vars,                        \* instance_vars[stack_id]: flat key -> value
    variable_handles,                  \* this._variableHandles: the handle of a reference
    var_mapping,                       \* this._var_mapping: reference -> parent and name
    listed,                            \* the variables of the variables responses
    set_variable_requests,             \* the names setVariableRequest gave to setValue
    \* ---- console, the tables built from what the server sends
    instance_local,                    \* instance["local"] of a break event: flat key -> value
    local_vars,                        \* self.local_vars, the tree parse_local returns
    filenames,                         \* the file list of the server
    filename_map,                      \* info.filename_map
    shortened_map,                     \* info.shortened_map
    last_command,                      \* what the last command of the REPL did
    \* ---- the WebSocket client of HGDBRuntime.start
    ws                                 \* this._ws: its state and the error messages shown

runtimeVars == <<connection, connected, token_count, token_callbacks, breakPoints,
                 current_local_variables, current_generator_variables,
                 current_generator_names, current_breakpoint_instance_id,
                 current_filename, current_line_num, immediate>>
sessionVars == <<threads, ide_events>>
observerVars == <<calls, sent, invoked, answered, faults, breaks, last_break, frames, last_frame>>
adapterVars == <<runtimeVars, sessionVars, observerVars>>
consoleVars == <<current_scope, namespace_id, current_breakpoint_id,
                 current_breakpoint_type, current_instance_index,
                 current_breakpoint_resp, set_values,
                 console_requests, parsed, repl>>
requestVars == <<dap_requests, responses, data_requests, data_breakpoints>>
variableVars == <<scope_vars, variable_handles, var_mapping, listed, set_variable_requests>>
tableVars == <<instance_local, local_vars, filenames, filename_map, shortened_map,
               last_command>>
transportVars == <<ws>>
handlerVars == <<variableVars, tableVars, transportVars>>
functionVars == <<bp_entry, breakpoints_result, stack_frame, scope_ids, handlerVars>>
dapVars == <<requestVars, functionVars>>
vars == <<adapterVars, consoleVars, dapVars>>

\* ------------------------------------------------------------ JS values
Undefined == "undefined"

\* Number.prototype.toString for a non-negative integer: its decimal digits.
Digit == <<"0", "1", "2", "3", "4", "5", "6", "7", "8", "9">>
RECURSIVE toString(_)
toString(n) == IF n < 10 THEN Digit[n + 1]
               ELSE toString(n \div 10) \o Digit[(n % 10) + 1]

\* The truth value JS gives a string in `if (token)`: only "" (and an absent
\* field, read as undefined and written "" here) is false; "0" is true.
Truthy(s) == s # ""

\* A JS Map keeps its entries apart from the properties of the Map object:
\* set/get/delete/clear work on the entries, m[k] reads a property.
EmptyFn == [k \in {} |-> Undefined]
NewMap == [entries |-> EmptyFn, props |-> EmptyFn]
MapSet(m, k, v) == [m EXCEPT !.entries = (k :> v) @@ m.entries]
MapGet(m, k) == IF k \in DOMAIN m.entries THEN m.entries[k] ELSE Undefined
MapHas(m, k) == k \in DOMAIN m.entries
MapDelete(m, k) ==
    [m EXCEPT !.entries = [x \in (DOMAIN m.entries) \ {k} |-> m.entries[x]]]
PropertyGet(m, k) == IF k \in DOMAIN m.props THEN m.props[k] ELSE Undefined

\* An insertion-ordered JS Map as a sequence of <<key, value>> pairs.
OMapKeys(m) == {m[i][1] : i \in 1..Len(m)}
OMapHas(m, k) == k \in OMapKeys(m)
OMapIndex(m, k) == CHOOSE i \in 1..Len(m) : m[i][1] = k
OMapGet(m, k) == IF OMapHas(m, k) THEN m[OMapIndex(m, k)][2] ELSE Undefined
OMapSet(m, k, v) == IF OMapHas(m, k) THEN [m EXCEPT ![OMapIndex(m, k)] = <<k, v>>]
                    ELSE Append(m, <<k, v>>)

\* ------------------------------------------------------------ wire format
\* A request envelope. A field the code leaves out is written "" (strings)
\* or -1 (numbers); token "" is an envelope without a token.
Envelope(type, token, command, id, line_num) ==
    [request |-> TRUE, type |-> type, token |-> token, command |-> command,
     id |-> id, line_num |-> line_num]

send_connect_message(token) == Envelope("connection", token, "", -1, -1)
send_bp_location(line_num, token) == Envelope("bp-location", token, "", -1, line_num)
setBreakpointPayload(breakpoint_id) == Envelope("breakpoint-id", "", "add", breakpoint_id, -1)
send_command(command) == Envelope("command", "", command, -1, -1)

\* What the simulator sends.  Break events carry one instance frame, read by
\* add_frame_info; every other frame is a response with a status.
InstanceIds == {1, 2}
BpIds == {0}
Lines == {1}
TokenStrings == {toString(i) : i \in 0..(MaxRequests - 1)}
InstanceName(i) == "mod" \o toString(i)

Payload(id, instance_id, bp_type, reason) ==
    [id |-> id, instance_id |-> instance_id, bp_type |-> bp_type,
     filename |-> IF instance_id = -1 THEN "" ELSE "/tmp/test.py",
     line_num |-> IF id = 3 THEN 5 ELSE 1,
     local |-> [a |-> "1"], generator |-> [a |-> "1"],
     instance_name |-> IF instance_id = -1 THEN "" ELSE InstanceName(instance_id),
     reason |-> reason]

BreakPayloads ==
    {Payload(b, i, t, "") : b \in BpIds, i \in InstanceIds, t \in {"normal", "data"}}
ResponsePayload == Payload(-1, -1, "", "no such location")

\* The payload of a successful bp-location response is the list of the
\* breakpoints at the location; bps holds their ids.
BpLists == {<<>>} \cup {<<b>> : b \in BpIds}

BreakFrames ==
    {[utf8Data |-> "json", type |-> "breakpoint", token |-> t, status |-> "success",
      payload |-> p, bps |-> <<>>] : t \in {"", toString(0)}, p \in BreakPayloads}
ResponseFrames ==
    {[utf8Data |-> "json", type |-> "generic", token |-> t, status |-> "success",
      payload |-> ResponsePayload, bps |-> l] : t \in TokenStrings \cup {""}, l \in BpLists}
    \cup
    {[utf8Data |-> "json", type |-> "generic", token |-> t, status |-> "error",
      payload |-> ResponsePayload, bps |-> <<>>] : t \in TokenStrings \cup {""}}
\* a binary message: message.utf8Data is undefined
BinaryFrame == [utf8Data |-> "", type |-> "", token |-> "", status |-> "",
                payload |-> ResponsePayload, bps |-> <<>>]
Frames == BreakFrames \cup ResponseFrames \cup {BinaryFrame}

\* ------------------------------------------------------------ HGDBRuntime
\* get_token: the token is the counter's value before the increment.
get_token(count) == toString(count)

add_callback(m, token, callback) == MapSet(m, token, callback)

\* send_payload writes to the socket only if this._connection is set.
send_payload(conn, socket, payload) ==
    IF conn THEN Append(socket, payload) ELSE socket

\* sendEvent defers the emit with setImmediate.  `cause` is not an argument of
\* the event: it remembers the break payload whose ingestion queued it.
sendEvent(queue, event, id, cause) ==
    Append(queue, [event |-> event, id |-> id, cause |-> cause])

\* A switch that lets a token on a break event take the default branch.
DispatchTokenFirst(resp) ==
    IF resp.type = "breakpoint" /\ ~Truthy(resp.token) THEN "on_breakpoint" ELSE "token"
\* The switch of the message handler.
Dispatch(resp) == IF resp.type = "breakpoint" THEN "on_breakpoint" ELSE "token"

\* const callback = this._token_callbacks[token]: a property read on the Map
\* object.  The tokens of the model are decimal strings, none of them the name
\* of a property Map.prototype or Object.prototype defines.
LookupCallback(m, token) == PropertyGet(m, token)

\* callback(resp.status, resp.payload): the continuations take one parameter
\* `resp`, so it is bound to the status string, and resp.status and
\* resp.payload read properties of a string: both undefined.
\*   status: what the continuation reads as resp.status; throws: it throws a
\*   TypeError; conn: the value of this._connected afterwards; stops: it calls
\*   this.stop().
InvokeCallback(callback, status, conn) ==
    LET resp_status == Undefined
        resp_payload == Undefined
    IN CASE callback = "connectRuntime" ->
              IF resp_status = "error"
              THEN [status |-> resp_status, outcome |-> "failed", throws |-> FALSE, conn |-> conn, stops |-> TRUE]
              ELSE [status |-> resp_status, outcome |-> "connected", throws |-> FALSE, conn |-> TRUE, stops |-> FALSE]
         [] callback = "verifyBreakpoint" ->
              IF resp_status = "error"
              THEN [status |-> resp_status, outcome |-> "rejected", throws |-> FALSE, conn |-> conn, stops |-> FALSE]
              ELSE \* bps_data.forEach on undefined
                   [status |-> resp_status, outcome |-> "threw", throws |-> TRUE, conn |-> conn, stops |-> FALSE]
         [] callback = "getBreakpoints" ->
              IF resp_status = "error"
              THEN [status |-> resp_status, outcome |-> "empty", throws |-> FALSE, conn |-> conn, stops |-> FALSE]
              ELSE \* bps.forEach on undefined
                   [status |-> resp_status, outcome |-> "threw", throws |-> TRUE, conn |-> conn, stops |-> FALSE]
         [] OTHER -> \* sendRemoveBreakpoints
              IF resp_status = "success"
              THEN [status |-> resp_status, outcome |-> "resolved", throws |-> FALSE, conn |-> conn, stops |-> FALSE]
              ELSE [status |-> resp_status, outcome |-> "rejected", throws |-> FALSE, conn |-> conn, stops |-> FALSE]

\* Number.parseInt of a JSON integer.
parseInt(n) == n

\* add_frame_info on the three maps <<local, generator variables, names>>.
add_frame_info(maps, payload) ==
    LET instance_id == parseInt(payload.instance_id)
        locals == IF OMapHas(maps[1], instance_id)
                  THEN OMapSet(maps[1], instance_id,
                               Append(OMapGet(maps[1], instance_id), payload.local))
                  ELSE OMapSet(maps[1], instance_id, <<payload.local>>)
        gens == IF OMapHas(maps[2], instance_id)
                THEN OMapSet(maps[2], instance_id,
                             Append(OMapGet(maps[2], instance_id), payload.generator))
                ELSE OMapSet(maps[2], instance_id, <<payload.generator>>)
    IN <<locals, gens, OMapSet(maps[3], instance_id, payload.instance_name)>>

\* on_breakpoint without the clear() of the instance names.
ClearedButNames(maps) == <<<<>>, <<>>, maps[3]>>
\* on_breakpoint without its clear() calls.
KeptMaps(maps) == maps
\* The three clear() calls that open on_breakpoint.
ClearedMaps(maps) == <<<<>>, <<>>, <<>>>>

\* fireEventsForBreakPoint / fireEventsForException
BreakEvent(is_exception) == IF is_exception THEN "stopOnException" ELSE "stopOnBreakpoint"

\* ------------------------------------------------------- HGDBDebugSession
Thread(id, name) == [id |-> id, name |-> name]
StoppedEvent(reason, id) == [event |-> "stopped", reason |-> reason, id |-> id]
ThreadEvent(reason, id) == [event |-> "thread", reason |-> reason, id |-> id]
BreakpointEvent(reason, id) == [event |-> "breakpoint", reason |-> reason, id |-> id]
TerminatedEvent == [event |-> "terminated", reason |-> "", id |-> -1]

\* sendEventThread(StoppedEvent, name)
sendEventThread(ths, name) == [i \in 1..Len(ths) |-> StoppedEvent(name, ths[i].id)]
\* clear_threads: one 'exited' per thread
clear_threads(ths) == [i \in 1..Len(ths) |-> ThreadEvent("exited", ths[i].id)]
\* names.forEach(... this._threads.push(new Thread(instance_id, name)))
ThreadsOf(names) == [i \in 1..Len(names) |-> Thread(names[i][1], names[i][2])]
\* names.forEach(... new StoppedEvent(reason, instance_id))
StoppedFor(names, reason) == [i \in 1..Len(names) |-> StoppedEvent(reason, names[i][1])]

\* The handlers registered on the runtime: <<threads', events sent>>.
OnRuntimeEvent(e, ths, names) ==
    CASE e.event = "stopOnEntry" -> <<ths, sendEventThread(ths, "entry")>>
      [] e.event = "stopOnStep" -> <<ths, sendEventThread(ths, "step")>>
      [] e.event = "stopOnBreakpoint" ->
            <<ThreadsOf(names), clear_threads(ths) \o StoppedFor(names, "breakpoint")>>
      [] e.event = "stopOnDataBreakpoint" ->
            <<ThreadsOf(names), clear_threads(ths) \o StoppedFor(names, "data breakpoint")>>
      [] e.event = "stopOnException" ->
            <<<<Thread(0, "Thread 0")>>, <<StoppedEvent("exception", 0)>>>>
      [] e.event = "breakpointValidated" -> <<ths, <<BreakpointEvent("changed", e.id)>>>>
      [] e.event = "end" -> <<ths, <<TerminatedEvent>>>>
      [] OTHER -> <<ths, <<>>>>

\* ------------------------------------------------------------------ Init
NoFrame == [handled |-> FALSE, type |-> "", token |-> "", status |-> "", utf8Data |-> ""]

\* No break event was ingested.
NoBreakInit ==
    /\ current_local_variables = <<>>
    /\ current_generator_variables = <<>>
    /\ current_generator_names = <<>>
    /\ current_breakpoint_instance_id = 0
    /\ current_filename = Undefined
    /\ current_line_num = -1
    /\ breaks = 0
    /\ last_break = ResponsePayload
\* The runtime and the session but for the break context.
IdleInit ==
    /\ connection = FALSE
    /\ connected = FALSE
    /\ token_count = 0
    /\ token_callbacks = NewMap
    /\ breakPoints = EmptyFn
    /\ immediate = <<>>
    /\ threads = <<Thread(0, "Thread 0")>>
    /\ ide_events = <<>>
    /\ calls = <<>>
    /\ sent = <<>>
    /\ invoked = <<>>
    /\ answered = {}
    /\ faults = 0
    /\ frames = 0
    /\ last_frame = NoFrame
AdapterInit == IdleInit /\ NoBreakInit

\* --------------------------------------------------- operations (adapter)
\* The tokens get_token has returned so far, and the keys of the registry.
Issued == {get_token(i) : i \in 0..(token_count - 1)}
Pending == DOMAIN token_callbacks.entries

\* A tokenized request: get_token, add_callback, then (unless the code sends
\* nothing) send_payload of the envelope built around the token.
\* The operations started so far.
Requests == token_count + Cardinality({i \in 1..Len(calls) : calls[i].token = ""})

NextToken == get_token(token_count)

\* envelope is the request built around NextToken.
Request(callback, envelope, sends, conn) ==
    /\ Requests < MaxRequests
    /\ token_count' = token_count + 1
    /\ token_callbacks' = add_callback(token_callbacks, NextToken, callback)
    /\ IF sends
       THEN /\ calls' = Append(calls, envelope)
            /\ sent' = send_payload(conn, sent, envelope)
       ELSE UNCHANGED <<calls, sent>>

\* A request the code sends without a token.
Untokenized(envelope) ==
    /\ Requests < MaxRequests
    /\ calls' = Append(calls, envelope)
    /\ sent' = send_payload(connection, sent, envelope)

\* The "connect" handler of start: keeps the connection, registers the message
\* and close handlers, runs connectRuntime and queues stopOnEntry.
Connect ==
    /\ ~connection
    /\ Requests < MaxRequests
    /\ connection' = TRUE
    /\ connected' = TRUE
    /\ token_count' = token_count + 1
    /\ token_callbacks' = add_callback(token_callbacks, NextToken, "connectRuntime")
    /\ calls' = Append(calls, send_connect_message(NextToken))
    /\ sent' = send_payload(TRUE, sent, send_connect_message(NextToken))
    /\ immediate' = sendEvent(immediate, "stopOnEntry", -1, ResponsePayload)
    /\ UNCHANGED <<breakPoints, current_local_variables, current_generator_variables,
                   current_generator_names, current_breakpoint_instance_id,
                   current_filename, current_line_num, sessionVars,
                   invoked, answered, faults, breaks, last_break, frames, last_frame, consoleVars, dapVars>>

Quiet == UNCHANGED <<connection, connected, breakPoints, current_local_variables,
                     current_generator_variables, current_generator_names,
                     current_breakpoint_instance_id, current_filename,
                     current_line_num, immediate, sessionVars,
                     invoked, answered, faults, breaks, last_break, frames, last_frame, consoleVars, dapVars>>

\* verifyBreakpoint up to its await: the continuation is registered and the
\* bp-location request handed to send_payload.
VerifyBreakpoint ==
    \E line \in Lines :
        /\ Request("verifyBreakpoint", send_bp_location(line, NextToken), TRUE, connection)
        /\ Quiet

GetBreakpoints ==
    \E line \in Lines :
        /\ Request("getBreakpoints", send_bp_location(line, NextToken), TRUE, connection)
        /\ Quiet

\* clearBreakpoints -> sendRemoveBreakpoints: a token and a continuation, and
\* nothing is handed to send_payload.
ClearBreakpoints ==
    /\ Request("sendRemoveBreakpoints", send_connect_message(NextToken), FALSE, connection)
    /\ Quiet

SetBreakpoint ==
    \E id \in BpIds :
        /\ Untokenized(setBreakpointPayload(id))
        /\ UNCHANGED <<token_count, token_callbacks>>
        /\ Quiet

Stop ==
    /\ Untokenized(send_command("stop"))
    /\ UNCHANGED <<token_count, token_callbacks>>
    /\ Quiet

\* continue() and step() through run(is_step)
Run ==
    \E is_step \in BOOLEAN :
        /\ connected
        /\ Untokenized(send_command(IF is_step THEN "step-over" ELSE "continue"))
        /\ UNCHANGED <<token_count, token_callbacks>>
        /\ Quiet

\* Number.parseInt(undefined)
NaN == -2
\* Object.entries(payload["local"]) throws a TypeError when the payload has no
\* `local`: add_frame_info ends there, after it has stored the file, the line
\* and the instance id it read, and on_breakpoint ends with it.
EntriesThrows(payload) == "local" \notin DOMAIN payload

\* on_breakpoint(payload, is_exception)
on_breakpoint(payload, is_exception) ==
    LET cleared == ClearedMaps(<<current_local_variables, current_generator_variables,
                                 current_generator_names>>)
        maps == IF EntriesThrows(payload) THEN cleared ELSE add_frame_info(cleared, payload)
    IN /\ current_local_variables' = maps[1]
       /\ current_generator_variables' = maps[2]
       /\ current_generator_names' = maps[3]
       /\ current_filename' = payload.filename
       /\ current_line_num' = parseInt(payload.line_num)
       /\ current_breakpoint_instance_id' =
              IF EntriesThrows(payload) THEN NaN ELSE parseInt(payload.instance_id)
       /\ immediate' = IF EntriesThrows(payload) THEN immediate
                       ELSE sendEvent(immediate, BreakEvent(is_exception), -1, payload)
       /\ breaks' = breaks + 1
       /\ last_break' = payload

\* The default branch of the switch: the token-based dispatch.
token_dispatch(resp) ==
    LET token == resp.token
        callback == LookupCallback(token_callbacks, token)
        r == InvokeCallback(callback, resp.status, connected)
    IN IF ~Truthy(token)
       THEN UNCHANGED <<token_callbacks, connected, invoked, faults, calls, sent>>
       ELSE IF callback = Undefined
       THEN \* calling undefined: TypeError, the delete is not reached
            /\ faults' = faults + 1
            /\ UNCHANGED <<token_callbacks, connected, invoked, calls, sent>>
       ELSE /\ invoked' = Append(invoked, [token |-> token, callback |-> callback,
                                           status |-> r.status,
                                           outcome |-> r.outcome])
            /\ connected' = r.conn
            /\ IF r.stops
               THEN /\ calls' = Append(calls, send_command("stop"))
                    /\ sent' = send_payload(connection, sent, send_command("stop"))
               ELSE UNCHANGED <<calls, sent>>
            /\ IF r.throws
               THEN /\ faults' = faults + 1
                    /\ UNCHANGED token_callbacks
               ELSE /\ token_callbacks' = MapDelete(token_callbacks, token)
                    /\ UNCHANGED faults

\* A parser that takes any text for a message.
parsesAnything(str_data) == TRUE

\* JSON.parse of the text of a frame: it throws a SyntaxError on a text that is
\* not JSON.  The model writes "json" for the text of a well-formed message.
ValidJSON(str_data) == str_data = "json"

\* connection.on("message", ...)
OnMessage(frame) ==
    /\ connection
    /\ frames < MaxFrames
    /\ last_frame' = [handled |-> TRUE, type |-> frame.type, token |-> frame.token,
                      status |-> frame.status, utf8Data |-> frame.utf8Data]
    /\ frames' = frames + 1
    /\ answered' = IF Truthy(frame.utf8Data) /\ ValidJSON(frame.utf8Data)
                                              /\ Dispatch(frame) = "token"
                                              /\ frame.token \in Issued
                   THEN answered \cup {frame.token} ELSE answered
    /\ IF ~Truthy(frame.utf8Data)
       THEN UNCHANGED <<token_callbacks, connected, invoked, faults, calls, sent,
                        current_local_variables, current_generator_variables,
                        current_generator_names, current_breakpoint_instance_id,
                        current_filename, current_line_num, immediate, breaks, last_break>>
       ELSE IF ~ValidJSON(frame.utf8Data)
       THEN \* JSON.parse throws: the handler ends before it has done anything
            /\ faults' = faults + 1
            /\ UNCHANGED <<token_callbacks, connected, invoked, calls, sent,
                           current_local_variables, current_generator_variables,
                           current_generator_names, current_breakpoint_instance_id,
                           current_filename, current_line_num, immediate, breaks, last_break>>
       ELSE IF Dispatch(frame) = "on_breakpoint"
       THEN /\ on_breakpoint(frame.payload, FALSE)
            /\ faults' = IF EntriesThrows(frame.payload) THEN faults + 1 ELSE faults
            /\ UNCHANGED <<token_callbacks, connected, invoked, calls, sent>>
       ELSE /\ token_dispatch(frame)
            /\ UNCHANGED <<current_local_variables, current_generator_variables,
                           current_generator_names, current_breakpoint_instance_id,
                           current_filename, current_line_num, immediate, breaks, last_break>>
    /\ UNCHANGED <<connection, token_count, breakPoints, sessionVars, consoleVars, dapVars>>

Message == \E frame \in Frames : OnMessage(frame)

\* The accessor the session's handlers read the instance names through.
getCurrentGeneratorNames == current_generator_names

\* A callback queued by setImmediate runs: the runtime emits the event and the
\* session's handler for it runs.
RunImmediate ==
    /\ immediate # <<>>
    /\ LET r == OnRuntimeEvent(Head(immediate), threads, getCurrentGeneratorNames)
       IN /\ threads' = r[1]
          /\ ide_events' = ide_events \o r[2]
    /\ immediate' = Tail(immediate)
    /\ UNCHANGED <<connection, connected, token_count, token_callbacks, breakPoints,
                   current_local_variables, current_generator_variables,
                   current_generator_names, current_breakpoint_instance_id,
                   current_filename, current_line_num, observerVars, consoleVars, dapVars>>

Next ==
    \/ Connect
    \/ VerifyBreakpoint
    \/ GetBreakpoints
    \/ ClearBreakpoints
    \/ SetBreakpoint
    \/ Stop
    \/ Run
    \/ Message
    \/ RunImmediate

\* ---------------------------------------------------------------- console
\* str.isdigit and int() on the decimal strings the model uses.
MaxNumber == 9
IsDigit(s) == \E n \in 0..MaxNumber : toString(n) = s
int(s) == CHOOSE n \in 0..MaxNumber : toString(n) = s

\* The flat local variables of an instance: the console shows a, not b.
ConsoleLocal == <<<<<<"a">>, "1">>>>
\* One entry of payload["instances"] of a break event.
ConsoleInstance(i, t) ==
    [instance_id |-> i, instance_name |-> InstanceName(i), breakpoint_id |-> i - 1,
     namespace_id |-> 0, bp_type |-> t, local |-> ConsoleLocal]
\* payload["instances"] of the break events recv_bp can return: one or two
\* instances, stopped at breakpoints of one kind
ConsoleBreaks ==
    UNION {{<<ConsoleInstance(i, t)>> : i \in InstanceIds} \cup
           {<<ConsoleInstance(i, t), ConsoleInstance(j, t)>> : i \in InstanceIds, j \in InstanceIds}
           : t \in {"normal", "data"}}
None == [present |-> FALSE, instances |-> <<>>]
Resp(instances) == [present |-> TRUE, instances |-> instances]

ConsoleVarNames == {"a", "b"}

ConsoleInit ==
    /\ current_scope = ""
    /\ namespace_id = 0
    /\ current_breakpoint_id = 0
    /\ current_breakpoint_type = "0"
    /\ current_instance_index = 0
    /\ current_breakpoint_resp = None
    /\ set_values = {}
    /\ console_requests = <<>>
    /\ parsed = 0
    /\ repl = "prompt"

\* The DAP request handlers have handled nothing yet.
NoEntry == [line |-> -1, column |-> -1, condition |-> "", bps |-> <<>>]
NoResult == [done |-> FALSE, breakpoints |-> <<>>, set |-> <<>>]
NoStackFrame == [made |-> FALSE, instance_id |-> 0, stack_index |-> 0, index |-> 0]
\* No scope is shown: no handle, no listed variable.
VariableInit ==
    /\ scope_vars = <<>>
    /\ variable_handles = <<>>
    /\ var_mapping = {}
    /\ listed = <<>>
    /\ set_variable_requests = <<>>
\* No break event was parsed, no file list was indexed.
NoTree == [parsed |-> FALSE, tree |-> <<>>]
NoIndex == [indexed |-> FALSE, result |-> <<>>]
NoCommand == [command |-> "", arg |-> "", value |-> "", outcome |-> "", awaited |-> FALSE]
TableInit ==
    /\ instance_local = <<>>
    /\ local_vars = NoTree
    /\ filenames = <<>>
    /\ filename_map = NoIndex
    /\ shortened_map = <<>>
    /\ last_command = NoCommand
\* start was not called: the client has not tried to connect, nothing was shown.
TransportInit == ws = [state |-> "idle", shown |-> <<>>]
HandlerInit == VariableInit /\ TableInit /\ TransportInit
RequestInit ==
    /\ dap_requests = 0
    /\ responses = <<>>
    /\ data_requests = <<>>
    /\ data_breakpoints = {}
FunctionInit ==
    /\ bp_entry = NoEntry
    /\ breakpoints_result = NoResult
    /\ stack_frame = NoStackFrame
    /\ scope_ids = <<>>
    /\ HandlerInit
DapInit == RequestInit /\ FunctionInit

Init == AdapterInit /\ ConsoleInit /\ DapInit

\* --------------------------------------- HGDBDebugSession, DAP requests
MaxDapRequests == 2   \* DAP requests the IDE sends
MaxDataEntries == 1   \* entries of one setDataBreakpoints request

\* A response handed to the IDE.  A field the response does not have is
\* written <<>> (threads, dataId) or "".
Response(command, ths, dataId, description) ==
    [command |-> command, threads |-> ths, dataId |-> dataId, description |-> description]

\* threadsRequest: the response carries this._threads.
ThreadsRequest ==
    /\ dap_requests < MaxDapRequests
    /\ dap_requests' = dap_requests + 1
    /\ responses' = Append(responses, Response("threads", threads, <<>>, ""))
    /\ UNCHANGED <<adapterVars, consoleVars, data_requests, data_breakpoints, functionVars>>

\* The names of the variables the IDE asks about; the simulator knows "a".
DataVarNames == {"a", "zz"}
SimulatorVars == {"a"}

\* A string read as its pieces between the '-' characters:
\* instance_id.toString() + "-" + name, and the handle `local-${iid}-${fid}`.
DataId(instance_id, name) == <<toString(instance_id), name>>
\* split('-').filter(n => n): the pieces that are not empty.
SplitDash(pieces) == SelectSeq(pieces, Truthy)
\* Number.parseInt of a string of decimal digits.
NumberParseInt(s) == CHOOSE n \in 0..MaxNumber : toString(n) = s

\* The current breakpoint id of an instance is known while the instance is in
\* the break context.
currentBreakpointKnown(names, instance_id) == OMapHas(names, instance_id)
\* validateDataBreakpoint: the data breakpoint is keyed to the current
\* breakpoint id of the instance, looked up in the break context; without it
\* the answer is false, with it the simulator's answer for the variable.
validateDataBreakpoint(names, instance_id, var_name) ==
    currentBreakpointKnown(names, instance_id) /\ var_name \in SimulatorVars
\* addDataBreakPoint: fails where validateDataBreakpoint answers false, and
\* otherwise inserts the data breakpoint in the simulator.
addDataBreakPoint(names, installed, instance_id, var_name) ==
    IF validateDataBreakpoint(names, instance_id, var_name)
    THEN [ok |-> TRUE, installed |-> installed \cup {<<instance_id, var_name>>}]
    ELSE [ok |-> FALSE, installed |-> installed]
\* clearDataBreakpoints: the simulator drops every data breakpoint.
clearDataBreakpoints(installed) == {}

\* dataBreakpointInfoRequest.  instance_id -1 is the undefined that
\* _getInstanceID returns without a variablesReference.  `error` is assigned
\* what validateDataBreakpoint returned.  In the branch without error the
\* handler writes response.body.dataId; the response was made without a body,
\* so the write throws and no response is sent.
DataBreakpointInfoRequest(instance_id, name) ==
    LET error == IF instance_id = -1 THEN TRUE
                 ELSE validateDataBreakpoint(getCurrentGeneratorNames, instance_id, name)
    IN /\ dap_requests < MaxDapRequests
       /\ dap_requests' = dap_requests + 1
       /\ responses' = IF error \/ instance_id = -1
                       THEN Append(responses, Response("dataBreakpointInfo", <<>>, <<>>,
                                                       "Invalid data breakpoint"))
                       ELSE responses
       /\ UNCHANGED <<adapterVars, consoleVars, data_requests, data_breakpoints, functionVars>>

DataBreakpointInfo ==
    \E instance_id \in InstanceIds \cup {-1}, name \in DataVarNames :
        DataBreakpointInfoRequest(instance_id, name)

\* The dataIds a setDataBreakpoints request can carry.
DataIds == {DataId(i, n) : i \in InstanceIds, n \in DataVarNames}
DataRequests == UNION {[1..n -> DataIds] : n \in 0..MaxDataEntries}

\* The instance and the variable a dataId names.
DataIdInstance(dataId) == NumberParseInt(SplitDash(dataId)[1])
DataIdVar(dataId) == SplitDash(dataId)[2]

\* The requests the handlings have sent to the simulator so far: one clear
\* each, and the adds.
RECURSIVE DataSends(_)
DataSends(hs) ==
    IF hs = <<>> THEN 0
    ELSE 1 + Cardinality({i \in 1..Len(Head(hs).sent_adds) : Head(hs).sent_adds[i]})
           + DataSends(Tail(hs))

\* setDataBreakpointsRequest begins: clearDataBreakpoints() is sent, the
\* simulator drops the data breakpoints, and the handling waits for the
\* acknowledgement with all its entries to do.
SetDataBreakpointsRequest ==
    \E breakpoints \in DataRequests :
        /\ dap_requests < MaxDapRequests
        /\ dap_requests' = dap_requests + 1
        /\ data_breakpoints' = clearDataBreakpoints(data_breakpoints)
        /\ data_requests' = Append(data_requests,
                                   [args |-> breakpoints, todo |-> breakpoints,
                                    verified |-> <<>>, sent_adds |-> <<>>,
                                    sent_at |-> DataSends(data_requests),
                                    returned |-> FALSE])
        /\ UNCHANGED <<adapterVars, consoleVars, responses, functionVars>>

\* The entries at the head of todo that addDataBreakPoint turns down without
\* a request to the simulator: the handling does not wait on them.
Refused(names, todo) ==
    LET known == {i \in 1..Len(todo) : currentBreakpointKnown(names, DataIdInstance(todo[i]))}
    IN IF known = {} THEN Len(todo)
       ELSE (CHOOSE i \in known : \A j \in known : i <= j) - 1

\* The acknowledgement a handling waits for arrives (they arrive in the order
\* of the requests) and the handling goes on: the loop over args.breakpoints
\* runs up to the next addDataBreakPoint that asks the simulator, or to its
\* end, where the handler returns; it has sent no response.
AddDataBreakPoint ==
    \E h \in 1..Len(data_requests) :
        LET handling == data_requests[h]
            k == Refused(getCurrentGeneratorNames, handling.todo)
            rest == SubSeq(handling.todo, k + 1, Len(handling.todo))
            refused == [i \in 1..k |-> FALSE]
            r == addDataBreakPoint(getCurrentGeneratorNames, data_breakpoints,
                                   DataIdInstance(Head(rest)), DataIdVar(Head(rest)))
        IN /\ ~handling.returned
           /\ \A g \in 1..Len(data_requests) :
                  ~data_requests[g].returned => data_requests[g].sent_at >= handling.sent_at
           /\ IF rest = <<>>
              THEN /\ data_requests' =
                          [data_requests EXCEPT ![h] =
                              [@ EXCEPT !.todo = <<>>,
                                        !.verified = @ \o refused,
                                        !.sent_adds = @ \o refused,
                                        !.returned = TRUE]]
                   /\ UNCHANGED data_breakpoints
              ELSE /\ data_breakpoints' = r.installed
                   /\ data_requests' =
                          [data_requests EXCEPT ![h] =
                              [@ EXCEPT !.todo = Tail(rest),
                                        !.verified = (@ \o refused) \o <<r.ok>>,
                                        !.sent_adds = (@ \o refused) \o <<TRUE>>,
                                        !.sent_at = DataSends(data_requests)]]
           /\ UNCHANGED <<adapterVars, consoleVars, dap_requests, responses, functionVars>>

SessionNext ==
    \/ Connect
    \/ Message
    \/ RunImmediate
    \/ ThreadsRequest
    \/ DataBreakpointInfo
    \/ SetDataBreakpointsRequest
    \/ AddDataBreakPoint

\* ------------------------------------------- setBreakPointsRequest, the loop
MaxVerified == 3   \* breakpoints one bp-location response names

\* The breakpoints verifyBreakpoint can return for an entry: distinct ids.
VerifiedIds == 0..(MaxVerified - 1)
VerifiedLists ==
    UNION {{l \in [1..n -> VerifiedIds] : \A i \in 1..n, j \in 1..n : l[i] = l[j] => i = j}
           : n \in 0..MaxVerified}
\* The entries of args.breakpoints: a line, a column or none (-1), a condition
\* or none (""), with what verifyBreakpoint returned for the entry.
Entries ==
    {[line |-> l, column |-> c, condition |-> e, bps |-> v] :
        l \in Lines, c \in {-1, 1, 2}, e \in {"", "a > 1"}, v \in VerifiedLists}

Breakpoint(verified, id) == [verified |-> verified, id |-> id]

\* The test on i alone.
ReportsFirstOnly(i, length, column) == i = 0
\* if (i === 0 || (bps.length > 1 && bp_entry.column !== undefined))
Reports(i, length, column) == i = 0 \/ (length > 1 /\ column # -1)

\* The elements of bps the loop over i passes to `push` and setBreakpoint.
Kept(entry) ==
    LET n == Len(entry.bps)
        kept == {i \in 1..n : Reports(i - 1, n, entry.column)}
        nth(k) == CHOOSE i \in kept : Cardinality({j \in kept : j <= i}) = k
    IN [k \in 1..Cardinality(kept) |-> entry.bps[nth(k)]]

\* One turn of the loop over args.breakpoints, past the await of
\* verifyBreakpoint: what is pushed on breakpoints_result and the calls of
\* setBreakpoint(bp.id, bp_entry.condition).
SetBreakPointsEntry ==
    /\ bp_entry # NoEntry
    /\ ~breakpoints_result.done
    /\ breakpoints_result' =
           IF Len(bp_entry.bps) = 0
           THEN [done |-> TRUE, breakpoints |-> <<Breakpoint(FALSE, -1)>>, set |-> <<>>]
           ELSE [done |-> TRUE,
                 breakpoints |-> [k \in 1..Len(Kept(bp_entry)) |->
                                     Breakpoint(TRUE, Kept(bp_entry)[k])],
                 set |-> [k \in 1..Len(Kept(bp_entry)) |->
                             [id |-> Kept(bp_entry)[k], expr |-> bp_entry.condition]]]
    /\ UNCHANGED <<adapterVars, consoleVars, requestVars, bp_entry, stack_frame, scope_ids,
                   handlerVars>>

ReportInit ==
    /\ AdapterInit /\ ConsoleInit /\ RequestInit /\ HandlerInit
    /\ bp_entry \in Entries
    /\ breakpoints_result = NoResult
    /\ stack_frame = NoStackFrame
    /\ scope_ids = <<>>

\* ------------------------------------------------------------- frame ids
StackBits == 13

\* x << n on a number 0 <= x < 2^31: the operand is taken as a 32-bit integer,
\* the bits shifted past bit 31 are lost and bit 31 of the result is its sign.
ShiftLeft(x, n) ==
    LET low == (x % 2^(31 - n)) * 2^n
    IN IF (x \div 2^(31 - n)) % 2 = 1 THEN (low - 2^30) - 2^30 ELSE low
\* x >> n on a 32-bit integer: the sign is kept.
ShiftRight(x, n) == x \div 2^n
\* a | b and a & b on 32-bit integers in two's complement.
RECURSIVE BitOr(_, _)
BitOr(a, b) ==
    IF a = 0 THEN b
    ELSE IF b = 0 THEN a
    ELSE IF a = -1 \/ b = -1 THEN -1
    ELSE 2 * BitOr(a \div 2, b \div 2) + (IF a % 2 = 1 \/ b % 2 = 1 THEN 1 ELSE 0)
RECURSIVE BitAnd(_, _)
BitAnd(a, b) ==
    IF a = 0 \/ b = 0 THEN 0
    ELSE IF a = -1 THEN b
    ELSE IF b = -1 THEN a
    ELSE 2 * BitAnd(a \div 2, b \div 2) + (IF a % 2 = 1 /\ b % 2 = 1 THEN 1 ELSE 0)

\* return instance_id << 13 | stack_index;
get_frame_id(instance_id, stack_index) ==
    BitOr(ShiftLeft(instance_id, StackBits), stack_index)
\* [frame_id >> 13, frame_id & ((1 << 13) - 1)]
get_instance_frame_id(frame_id) ==
    <<ShiftRight(frame_id, StackBits), BitAnd(frame_id, ShiftLeft(1, StackBits) - 1)>>

\* Instance ids and stack indexes a frame is made of: small ones, the last
\* stack index, and instance ids around 2^18 and above.
FrameInstanceIds ==
    {0, 1, 2, 3, 2^18 - 1, 2^18, 2^18 + 1, 2^19 - 1, 2^19, 2^19 + 1, 2^20 + 2, 2^30 + 1}
StackIndexes == {0, 1, 2, 2^StackBits - 2, 2^StackBits - 1}

\* stack(): the index of the frame of a scope of an instance.
Stack ==
    /\ ~stack_frame.made
    /\ stack_frame.instance_id \in FrameInstanceIds
    /\ stack_frame' = [stack_frame EXCEPT
                          !.made = TRUE,
                          !.index = get_frame_id(stack_frame.instance_id,
                                                 stack_frame.stack_index)]
    /\ UNCHANGED <<adapterVars, consoleVars, requestVars, bp_entry, breakpoints_result,
                   scope_ids, handlerVars>>

\* scopesRequest on the id of that frame: the ids its three handles are named by.
ScopesRequest ==
    /\ stack_frame.made
    /\ scope_ids = <<>>
    /\ scope_ids' = get_instance_frame_id(stack_frame.index)
    /\ UNCHANGED <<adapterVars, consoleVars, requestVars, bp_entry, breakpoints_result,
                   stack_frame, handlerVars>>

FrameIdInit ==
    /\ AdapterInit /\ ConsoleInit /\ RequestInit /\ HandlerInit
    /\ bp_entry = NoEntry
    /\ breakpoints_result = NoResult
    /\ stack_frame \in {[made |-> FALSE, instance_id |-> i, stack_index |-> s, index |-> 0] :
                           i \in FrameInstanceIds, s \in StackIndexes}
    /\ scope_ids = <<>>
FrameIdNext == Stack \/ ScopesRequest

\* ------------------------------------------------- stack, stackTraceRequest
\* stack() with the scopes numbered from one.
stackFromOne(locals, filename, line_num, instance_id) ==
    IF ~OMapHas(locals, instance_id)
    THEN [frames |-> <<>>, count |-> 0]
    ELSE LET frames_infos == OMapGet(locals, instance_id)
         IN [frames |-> [i \in 1..Len(frames_infos) |->
                            [index |-> get_frame_id(instance_id, i),
                             name |-> "Scope " \o toString(i),
                             file |-> filename, line |-> line_num]],
             count |-> Len(frames_infos)]

\* stack(instance_id): one frame per scope stored for the instance, none for
\* an instance the map does not hold.
stack(locals, filename, line_num, instance_id) ==
    IF ~OMapHas(locals, instance_id)
    THEN [frames |-> <<>>, count |-> 0]
    ELSE LET frames_infos == OMapGet(locals, instance_id)
         IN [frames |-> [i \in 1..Len(frames_infos) |->
                            [index |-> get_frame_id(instance_id, i - 1),
                             name |-> "Scope " \o toString(i - 1),
                             file |-> filename, line |-> line_num]],
             count |-> Len(frames_infos)]

\* The thread ids the IDE asks the stack of: the instances and one more.
StackThreadIds == InstanceIds \cup {3}

\* stackTraceRequest: the response carries the frames of stack(threadId);
\* seen is the number of break events handled before the request.
StackTraceRequest ==
    \E thread_id \in StackThreadIds :
        LET stk == stack(current_local_variables, current_filename, current_line_num,
                         thread_id)
        IN /\ dap_requests < MaxDapRequests
           /\ dap_requests' = dap_requests + 1
           /\ responses' = Append(responses,
                  [command |-> "stackTrace", threads |-> <<>>, dataId |-> <<>>,
                   description |-> "", threadId |-> thread_id,
                   stackFrames |-> IF stk.count = 0 THEN <<>> ELSE stk.frames,
                   totalFrames |-> IF stk.count = 0 THEN 0 ELSE stk.count,
                   seen |-> breaks])
           /\ UNCHANGED <<adapterVars, consoleVars, data_requests, data_breakpoints,
                          functionVars>>

StackNext ==
    \/ Connect
    \/ Message
    \/ RunImmediate
    \/ StackTraceRequest

\* ------------------------------- variablesRequest, setVariableRequest
MaxVariableRequests == 3   \* variables requests of the IDE
MaxSetVariables == 1       \* setVariable requests of the IDE

\* A dotted name is the sequence of its pieces between the dots: split(".")
\* reads the pieces, a + "." + b joins two names.  The scopes of the simulator:
\* flat keys none of which is a prefix of another, in the order of the payload.
Value == "1"
Scopes ==
    { <<<<<<"x">>, Value>>>>,
      <<<<<<"a", "b">>, Value>>, <<<<"x">>, Value>>>>,
      <<<<<<"a", "0">>, Value>>, <<<<"a", "1">>, Value>>>>,
      <<<<<<"a", "b", "c">>, Value>>>>,
      <<<<<<"a", "b", "c">>, Value>>, <<<<"a", "b", "d">>, Value>>, <<<<"a", "e">>, Value>>>>,
      <<<<<<"a", "0", "b">>, Value>>, <<<<"a", "1", "b">>, Value>>>>,
      <<<<<<"a", "0", "b">>, Value>>, <<<<"a", "0", "c">>, Value>>>>,
      <<<<<<"self", "a", "0">>, Value>>, <<<<"self", "a", "1">>, Value>>>> }

\* !isNaN(Number(piece))
IsNumber(piece) == piece \in {"0", "1"}
Bracket(piece) == "[" \o piece \o "]"

\* `${handle_name}-${instance_id}-${stack_id}-${suffix}`; a handle of
\* scopesRequest has three pieces and no suffix.
Handle(id, suffix) == [id |-> id, instance_id |-> 1, stack_id |-> 0, suffix |-> suffix]

\* What a forEach of variablesRequest builds: the handles it has seen, the
\* variables of the response, this._variableHandles and this._var_mapping.
\* key is the flat key an integer variable shows, parent the reference asked.
Variable(name, value, ref, key, parent) ==
    [name |-> name, value |-> value, variablesReference |-> ref, key |-> key,
     parent |-> parent]

processNestedScope(name, value, acc, parent_ref) ==
    IF Len(name) > 1
    THEN LET handle_name == name[1]
             next_name == name[2]
             ref == Len(acc.table) + 1
         IN IF handle_name \notin acc.handles
            THEN [handles |-> acc.handles \cup {handle_name},
                  variables |-> Append(acc.variables,
                      Variable(handle_name, IF IsNumber(next_name) THEN "Array" ELSE "Object",
                               ref, <<>>, parent_ref)),
                  table |-> Append(acc.table, Handle(<<handle_name>>, "local")),
                  mapping |-> acc.mapping \cup
                      {[ref |-> ref, parent |-> parent_ref, name |-> <<handle_name>>]}]
            ELSE acc
    ELSE [acc EXCEPT !.variables = Append(@, Variable(name[1], value, 0, name, parent_ref))]

\* The body of the forEach of the last branch of variablesRequest: a key that
\* starts with id + "." shows its next piece, as an object or array with a new
\* handle when more pieces follow, as an integer otherwise.
nestedVariable(name, value, acc, id, parent_ref) ==
    IF Len(name) > Len(id) /\ SubSeq(name, 1, Len(id)) = id
    THEN LET sub_name == SubSeq(name, Len(id) + 1, Len(name))
             next_name == sub_name[1]
             ref == Len(acc.table) + 1
             is_array == IF id # <<"self">> THEN IsNumber(next_name)
                         ELSE IsNumber(sub_name[2])
         IN IF Len(sub_name) > 1
            THEN IF next_name \notin acc.handles
                 THEN LET shown == IF is_array /\ IsNumber(next_name)
                                   THEN Bracket(next_name) ELSE next_name
                      IN [handles |-> acc.handles \cup {shown},
                          variables |-> Append(acc.variables,
                              Variable(shown, IF is_array THEN "Array" ELSE "Object",
                                       ref, <<>>, parent_ref)),
                          table |-> Append(acc.table, Handle(id \o <<next_name>>, "local")),
                          mapping |-> acc.mapping \cup
                              {[ref |-> ref, parent |-> parent_ref, name |-> sub_name]}]
                 ELSE acc
            ELSE [acc EXCEPT !.variables = Append(@,
                     Variable(IF IsNumber(next_name) THEN Bracket(next_name) ELSE next_name,
                              value, 0, name, parent_ref))]
    ELSE acc

\* vars.forEach of variablesRequest on the handle with this id.
RECURSIVE forEachVariable(_, _, _, _)
forEachVariable(entries, acc, id, parent_ref) ==
    IF entries = <<>> THEN acc
    ELSE LET name == Head(entries)[1]
             value == Head(entries)[2]
         IN forEachVariable(Tail(entries),
                IF id = <<"local">>
                THEN processNestedScope(name, value, acc, parent_ref)
                ELSE nestedVariable(name, value, acc, id, parent_ref),
                id, parent_ref)

\* scopesRequest creates the handle local-<instance>-<frame> of the scope.
LocalScope ==
    /\ variable_handles = <<>>
    /\ variable_handles' = <<Handle(<<"local">>, "")>>
    /\ UNCHANGED <<adapterVars, consoleVars, requestVars, bp_entry, breakpoints_result,
                   stack_frame, scope_ids, scope_vars, var_mapping, listed,
                   set_variable_requests, tableVars, transportVars>>

\* variablesRequest(args.variablesReference)
VariablesRequest ==
    \E reference \in 1..Len(variable_handles) :
        LET handle == variable_handles[reference]
            acc == forEachVariable(scope_vars,
                       [handles |-> {}, variables |-> <<>>, table |-> variable_handles,
                        mapping |-> var_mapping],
                       handle.id, reference)
        IN /\ dap_requests < MaxVariableRequests
           /\ dap_requests' = dap_requests + 1
           /\ variable_handles' = acc.table
           /\ var_mapping' = acc.mapping
           /\ listed' = listed \o acc.variables
           /\ UNCHANGED <<adapterVars, consoleVars, responses, data_requests,
                          data_breakpoints, bp_entry, breakpoints_result, stack_frame,
                          scope_ids, scope_vars, set_variable_requests, tableVars, transportVars>>

\* The while loop of setVariableRequest: info.name + "." + full_name up the
\* chain of parents.
RECURSIVE fullName(_, _, _)
fullName(mapping, ref, full_name) ==
    LET infos == {info \in mapping : info.ref = ref}
    IN IF infos = {} THEN full_name
       ELSE LET info == CHOOSE i \in infos : TRUE
            IN fullName(mapping, info.parent, info.name \o full_name)

\* setValue(full_name, ...) sends a set-value request for var_name = full_name.
setValue(requests, full_name, is_local, key) ==
    Append(requests, [var_name |-> full_name, is_local |-> is_local, key |-> key])

\* setVariableRequest on an integer variable of a variables response.
SetVariableRequest ==
    \E i \in 1..Len(listed) :
        LET ref == listed[i].parent
            handle == variable_handles[ref]
            id == IF handle.suffix = "" THEN handle.id ELSE <<handle.suffix>>
        IN /\ listed[i].variablesReference = 0
           /\ Len(set_variable_requests) < MaxSetVariables
           /\ set_variable_requests' =
                  setValue(set_variable_requests,
                           fullName(var_mapping, ref, <<listed[i].name>>),
                           id = <<"local">>, listed[i].key)
           /\ UNCHANGED <<adapterVars, consoleVars, requestVars, bp_entry, breakpoints_result,
                          stack_frame, scope_ids, scope_vars, variable_handles, var_mapping,
                          listed, tableVars, transportVars>>

\* The scope of the current break is one of Scopes.
VariablesInit ==
    /\ AdapterInit /\ ConsoleInit /\ RequestInit
    /\ bp_entry = NoEntry
    /\ breakpoints_result = NoResult
    /\ stack_frame = NoStackFrame
    /\ scope_ids = <<>>
    /\ scope_vars \in Scopes
    /\ variable_handles = <<>>
    /\ var_mapping = {}
    /\ listed = <<>>
    /\ set_variable_requests = <<>>
    /\ TableInit /\ TransportInit
VariablesNext == LocalScope \/ VariablesRequest \/ SetVariableRequest

\* ------------------------------------------ console, parse_local
MaxLocals == 2   \* entries of instance["local"]

\* A flat key is the sequence of its characters, so that replace and split
\* work on it as they do on the string; a piece is the string of its
\* characters.
RawKeys ==
    { <<"a">>, <<"b">>, <<"0">>, <<"1">>,
      <<"a", ".", "b">>, <<"a", ".", "0">>, <<"a", ".", "1">>, <<"b", ".", "1">>,
      <<"a", "[", "0", "]">>, <<"a", "[", "1", "]">>,
      <<"a", "[", "0", "]", ".", "b">>, <<"a", "[", "0", "]", "[", "1", "]">>,
      <<"a", "[", "0", "]", "[", "0", "]">>,
      <<"a", ".", "b", ".", "0">> }
LocalValues == {"1", "x"}

\* name.replace("[", ".").replace("]", "")
NotClosing(c) == c # "]"
Normalized(name) ==
    SelectSeq([i \in 1..Len(name) |-> IF name[i] = "[" THEN "." ELSE name[i]], NotClosing)

RECURSIVE Joined(_)
Joined(chars) == IF chars = <<>> THEN "" ELSE Head(chars) \o Joined(Tail(chars))

\* name.split(".")
RECURSIVE split(_)
split(name) ==
    IF \A i \in 1..Len(name) : name[i] # "."
    THEN <<Joined(name)>>
    ELSE LET dot == CHOOSE i \in 1..Len(name) :
                        name[i] = "." /\ \A j \in 1..(i - 1) : name[j] # "."
         IN <<Joined(SubSeq(name, 1, dot - 1))>> \o split(SubSeq(name, dot + 1, Len(name)))

\* The values of the tree: a dict (key -> node), a list, an int or a str.
DictNode(items) == [kind |-> "dict", at |-> items]
ListNode(items) == [kind |-> "list", at |-> items]
IntNode(n) == [kind |-> "int", at |-> n]
StrNode(s) == [kind |-> "str", at |-> s]
\* target[key] = node
Put(items, key, node) ==
    [k \in (DOMAIN items) \cup {key} |-> IF k = key THEN node ELSE items[k]]

\* The loop that builds up the hierarchy, and the assignment of the leaf.
RECURSIVE setPath(_, _, _)
setPath(target, tokens, leaf) ==
    IF Len(tokens) = 1
    THEN Put(target, tokens[1], leaf)
    ELSE LET child == IF tokens[1] \in DOMAIN target THEN target[tokens[1]].at ELSE <<>>
         IN Put(target, tokens[1], DictNode(setPath(child, Tail(tokens), leaf)))

\* The first pass of parse_local over local_vars.items().
RECURSIVE firstPass(_, _)
firstPass(entries, result) ==
    IF entries = <<>> THEN result
    ELSE LET tokens == split(Normalized(Head(entries)[1]))
             value == Head(entries)[2]
         IN firstPass(Tail(entries),
                IF Len(tokens) = 1
                THEN Put(result, tokens[1], StrNode(value))
                ELSE setPath(result, tokens,
                             IF IsDigit(value) THEN IntNode(int(value)) ELSE StrNode(value)))

\* fix_local_str_num that leaves a str as it is.
RECURSIVE fixKeepsStr(_)
fixKeepsStr(target) ==
    IF target.kind # "dict"
    THEN target
    ELSE LET keys == DOMAIN target.at
             length == Cardinality(keys)
         IN IF \E i \in 0..(length - 1) : toString(i) \notin keys
            THEN DictNode([k \in keys |-> fixKeepsStr(target.at[k])])
            ELSE ListNode([i \in 1..length |-> fixKeepsStr(target.at[toString(i - 1)])])

\* fix_local_str_num that does not look into the elements of a list.
RECURSIVE fixShallow(_)
fixShallow(target) ==
    IF target.kind # "dict"
    THEN IF target.kind = "str" /\ IsDigit(target.at) THEN IntNode(int(target.at)) ELSE target
    ELSE LET keys == DOMAIN target.at
             length == Cardinality(keys)
         IN IF \E i \in 0..(length - 1) : toString(i) \notin keys
            THEN DictNode([k \in keys |-> fixShallow(target.at[k])])
            ELSE ListNode([i \in 1..length |-> target.at[toString(i - 1)]])

\* fix_local_str_num: a str of digits becomes an int, a dict whose keys are
\* "0" .. str(len - 1) becomes a list.
RECURSIVE fix_local_str_num(_)
fix_local_str_num(target) ==
    IF target.kind # "dict"
    THEN IF target.kind = "str" /\ IsDigit(target.at) THEN IntNode(int(target.at)) ELSE target
    ELSE LET keys == DOMAIN target.at
             length == Cardinality(keys)
         IN IF \E i \in 0..(length - 1) : toString(i) \notin keys
            THEN DictNode([k \in keys |-> fix_local_str_num(target.at[k])])
            ELSE ListNode([i \in 1..length |-> fix_local_str_num(target.at[toString(i - 1)])])

parse_local(entries) == fix_local_str_num(DictNode(firstPass(entries, <<>>)))

\* piece lists p and q: p is a proper dotted prefix of q
ProperPrefix(p, q) == Len(p) < Len(q) /\ SubSeq(q, 1, Len(p)) = p
\* The maps the server sends: distinct keys, none a proper prefix of another.
LocalMaps ==
    {m \in UNION {[1..n -> RawKeys \X LocalValues] : n \in 1..MaxLocals} :
        \A i, j \in 1..Len(m) :
            i # j => /\ m[i][1] # m[j][1]
                     /\ ~ProperPrefix(split(Normalized(m[i][1])), split(Normalized(m[j][1])))}

\* DebuggingInformation.parse: self.local_vars = parse_local(instance["local"])
ParseLocal ==
    /\ ~local_vars.parsed
    /\ instance_local # <<>>
    /\ local_vars' = [parsed |-> TRUE, tree |-> parse_local(instance_local)]
    /\ UNCHANGED <<adapterVars, consoleVars, requestVars, bp_entry, breakpoints_result,
                   stack_frame, scope_ids, variableVars, instance_local, filenames,
                   filename_map, shortened_map, last_command, transportVars>>

\* ------------------------------------------ console, index_filenames
MaxFiles == 3   \* files of the server's list

\* A path is the sequence of its components; os.path.basename is the last.
basename(filename) == <<filename[Len(filename)]>>
FullPaths ==
    { <<"x", "a">>, <<"y", "a">>, <<"z", "a">>, <<"x", "b">>, <<"y", "b">>, <<"x", "y", "c">> }
FileLists ==
    {l \in UNION {[1..n -> FullPaths] : n \in 1..MaxFiles} :
        \A i, j \in 1..Len(l) : i # j => l[i] # l[j]}

\* result.pop(key)
Pop(items, key) == [k \in (DOMAIN items) \ {key} |-> items[k]]

\* One turn of the loop of index_filenames without the set of conflicts.
indexForgetsConflicts(acc, filename) ==
    LET base == basename(filename)
        own == IF base # filename THEN Put(acc.result, filename, filename) ELSE acc.result
    IN IF base \in DOMAIN own
       THEN [result |-> Pop(own, base), conflicted |-> acc.conflicted]
       ELSE [result |-> Put(own, base, filename), conflicted |-> acc.conflicted]

\* One turn of the loop of index_filenames.
indexFilename(acc, filename) ==
    LET base == basename(filename)
        own == IF base # filename THEN Put(acc.result, filename, filename) ELSE acc.result
    IN IF base \in acc.conflicted
       THEN [result |-> own, conflicted |-> acc.conflicted]
       ELSE IF base \in DOMAIN own
            THEN [result |-> Pop(own, base), conflicted |-> acc.conflicted \cup {base}]
            ELSE [result |-> Put(own, base, filename), conflicted |-> acc.conflicted]

RECURSIVE indexLoop(_, _)
indexLoop(list, acc) ==
    IF list = <<>> THEN acc ELSE indexLoop(Tail(list), indexFilename(acc, Head(list)))

\* index_filenames: the forward map and the map of the shortened names.
index_filenames(list) ==
    LET result == indexLoop(list, [result |-> <<>>, conflicted |-> {}]).result
        shortened == {name \in DOMAIN result : name # result[name]}
    IN <<result,
         [value \in {result[name] : name \in shortened} |->
             CHOOSE name \in shortened : result[name] = value]>>

\* main_loop: info.filename_map, info.shortened_map = index_filenames(...)
IndexFilenames ==
    /\ ~filename_map.indexed
    /\ filenames # <<>>
    /\ filename_map' = [indexed |-> TRUE, result |-> index_filenames(filenames)[1]]
    /\ shortened_map' = index_filenames(filenames)[2]
    /\ UNCHANGED <<adapterVars, consoleVars, requestVars, bp_entry, breakpoints_result,
                   stack_frame, scope_ids, variableVars, instance_local, local_vars,
                   filenames, last_command, transportVars>>

\* A console that received a break event.
ParseInit ==
    /\ AdapterInit /\ ConsoleInit /\ RequestInit /\ VariableInit /\ TransportInit
    /\ bp_entry = NoEntry
    /\ breakpoints_result = NoResult
    /\ stack_frame = NoStackFrame
    /\ scope_ids = <<>>
    /\ instance_local \in LocalMaps
    /\ local_vars = NoTree
    /\ filenames = <<>>
    /\ filename_map = NoIndex
    /\ shortened_map = <<>>
    /\ last_command = NoCommand
\* A console that received the file list.
IndexInit ==
    /\ AdapterInit /\ ConsoleInit /\ RequestInit /\ VariableInit /\ TransportInit
    /\ bp_entry = NoEntry
    /\ breakpoints_result = NoResult
    /\ stack_frame = NoStackFrame
    /\ scope_ids = <<>>
    /\ instance_local = <<>>
    /\ local_vars = NoTree
    /\ filenames \in FileLists
    /\ filename_map = NoIndex
    /\ shortened_map = <<>>
    /\ last_command = NoCommand

\* ------------------------------------------ console, the commands
MaxPrints == 1   \* evaluations the print command forwards

\* What a command of the REPL did: its name and arguments, whether it was
\* answered locally or sent, and whether main_loop awaited a break after it.
Command(command, arg, value, outcome, awaited) ==
    [command |-> command, arg |-> arg, value |-> value, outcome |-> outcome,
     awaited |-> awaited]
\* A request of the console; answer is the status of the server's response.
ConsoleRequest(type, arg, value, breakpoint_id, answer) ==
    [type |-> type, arg |-> arg, value |-> value, breakpoint_id |-> breakpoint_id,
     answer |-> answer]

\* DebuggingInformation.parse (0-based index into instances)
parse(resp) ==
    LET index == 0
        instance == resp.instances[index + 1]
    IN /\ current_instance_index' = index
       /\ current_breakpoint_type' = instance.bp_type
       /\ current_breakpoint_id' = instance.breakpoint_id
       /\ current_scope' = toString(instance.breakpoint_id)
       /\ namespace_id' = instance.namespace_id
       /\ local_vars' = [parsed |-> TRUE, tree |-> parse_local(instance.local)]
       /\ current_breakpoint_resp' = resp
       /\ parsed' = parsed + 1
       /\ UNCHANGED set_values

\* What the commands of the console leave alone.
consoleIdleVars == <<adapterVars, requestVars, bp_entry, breakpoints_result, stack_frame,
                     scope_ids, variableVars, instance_local, filenames, filename_map,
                     shortened_map, transportVars>>
contextVars == <<current_scope, namespace_id, current_breakpoint_id,
                 current_breakpoint_type, current_instance_index, current_breakpoint_resp,
                 parsed, local_vars>>

Prompt == repl = "prompt" /\ Len(console_requests) < MaxCommands

\* A check_error that takes every response for a success.
checkNothing(status) == TRUE
\* SubCommand.check_error: False for a response of status "error".
check_error(status) == status # "error"

\* self.info.set_values.add(var) whatever the server answered.
addWithoutCheck(values, var, status) == values \cup {var}
\* if self.check_error(resp): self.info.set_values.add(var)
addSetValue(values, var, status) == IF check_error(status) THEN values \cup {var} ELSE values

\* SetValueCommand.dispatch on "var=value"; status is the server's answer.
SetValueCommand ==
    \E var \in ConsoleVarNames, value \in {"7", "x", "-1"}, status \in {"success", "error"} :
        /\ Prompt
        /\ IF ~IsDigit(value) \/ ~IsDigit(current_scope)
           THEN /\ last_command' = Command("set", var, value, "rejected", FALSE)
                /\ UNCHANGED <<set_values, console_requests>>
           ELSE /\ console_requests' =
                      Append(console_requests,
                             ConsoleRequest("set-value", var, int(value), int(current_scope),
                                            status))
                /\ set_values' = addSetValue(set_values, var, status)
                /\ last_command' = Command("set", var, value, "sent", FALSE)
        /\ UNCHANGED <<contextVars, repl, consoleIdleVars>>

\* The index the loop of ThreadCommand.dispatch leaves: the last match.
ThreadIndex(instances, instance_id, index) ==
    LET hits == {i \in 1..Len(instances) : instances[i].instance_id = instance_id}
    IN IF hits = {} THEN index
       ELSE (CHOOSE i \in hits : \A j \in hits : j <= i) - 1

\* ThreadCommand.dispatch; without a break so far current_breakpoint_resp is
\* None and subscripting it raises, which ends the REPL.
ThreadCommand ==
    \E instance_id \in InstanceIds :
        /\ Prompt
        /\ IF ~current_breakpoint_resp.present
           THEN /\ repl' = "crashed"
                /\ UNCHANGED current_instance_index
           ELSE /\ current_instance_index' =
                      ThreadIndex(current_breakpoint_resp.instances, instance_id,
                                  current_instance_index)
                /\ UNCHANGED repl
        /\ last_command' = Command("thread", toString(instance_id), "", "local", FALSE)
        /\ UNCHANGED <<current_scope, namespace_id, current_breakpoint_id,
                       current_breakpoint_type, current_breakpoint_resp, set_values,
                       console_requests, parsed, local_vars, consoleIdleVars>>

\* if cmd_result: resp = await client.recv_bp(), which returns the next break
\* event, or None (written <<>>) when the simulator has exited.
BreakOrNone == {<<>>} \cup ConsoleBreaks
AwaitBreak(instances) ==
    IF instances = <<>>
    THEN /\ repl' = "exited"
         /\ UNCHANGED <<contextVars, set_values>>
    ELSE /\ parse(Resp(instances))
         /\ UNCHANGED repl

FlowCommands == {"continue", "step_over", "step_back", "reverse_continue"}

\* A flow command (its dispatch returns True) and the wait of main_loop that
\* follows it.
FlowCommand ==
    \E command \in FlowCommands, instances \in BreakOrNone :
        /\ Prompt
        /\ console_requests' =
               Append(console_requests, ConsoleRequest("command", command, -1, -1, ""))
        /\ last_command' = Command(command, "", "", "sent", TRUE)
        /\ AwaitBreak(instances)
        /\ UNCHANGED consoleIdleVars

\* GoCommand.dispatch returns True only when the server accepts the jump.
GoCommand ==
    \E status \in {"success", "error"}, instances \in BreakOrNone :
        /\ Prompt
        /\ console_requests' =
               Append(console_requests, ConsoleRequest("command", "jump", 1, -1, status))
        /\ IF check_error(status)
           THEN /\ last_command' = Command("go", "1", "", "sent", TRUE)
                /\ AwaitBreak(instances)
           ELSE /\ last_command' = Command("go", "1", "", "sent", FALSE)
                /\ UNCHANGED <<contextVars, set_values, repl>>
        /\ UNCHANGED consoleIdleVars

\* ConditionCommand.dispatch: the request, check_error, and no result.
ConditionCommand ==
    \E status \in {"success", "error"} :
        /\ Prompt
        /\ console_requests' =
               Append(console_requests, ConsoleRequest("condition", "a", -1, 0, status))
        /\ last_command' = Command("condition", "0", "a", "sent", FALSE)
        /\ UNCHANGED <<contextVars, set_values, repl, consoleIdleVars>>

\* locate_local_vars for an expression of one name without dots: the value
\* the tree holds under it, if any.
locate_local_vars(expr, tree) ==
    IF expr \in DOMAIN tree.at THEN tree.at[expr] ELSE [kind |-> "None", at |-> 0]

PrintExpressions == ConsoleVarNames \cup {"breakpoint-id"}

\* PrintCommand.dispatch: the cached tree unless the name was set, the two
\* special values, and otherwise an evaluation by the server.
PrintCommand ==
    \E expr \in PrintExpressions :
        LET tree == IF local_vars.parsed THEN local_vars.tree ELSE DictNode(<<>>)
            target == IF expr \notin set_values
                      THEN locate_local_vars(expr, tree)
                      ELSE [kind |-> "None", at |-> 0]
            evaluations == {i \in 1..Len(console_requests) :
                               console_requests[i].type = "evaluation"}
        IN /\ repl = "prompt"
           /\ IF target.kind # "None"
              THEN /\ last_command' = Command("print", expr, "", "cache", FALSE)
                   /\ UNCHANGED console_requests
              ELSE IF expr \in {"breakpoint-id", "namespace-id"}
                   THEN /\ last_command' = Command("print", expr, "", "special", FALSE)
                        /\ UNCHANGED console_requests
                   ELSE /\ Cardinality(evaluations) < MaxPrints
                        /\ last_command' = Command("print", expr, "", "server", FALSE)
                        /\ console_requests' =
                               Append(console_requests,
                                      ConsoleRequest("evaluation", expr, -1,
                                          IF current_scope = "" THEN -1
                                          ELSE int(current_scope), ""))
           /\ UNCHANGED <<contextVars, set_values, repl, consoleIdleVars>>

ConsoleNext ==
    \/ SetValueCommand
    \/ ThreadCommand
    \/ FlowCommand
    \/ GoCommand
    \/ ConditionCommand
    \/ PrintCommand

\* The REPL for its first commands.
MaxReplRequests == 2   \* requests of the console in a short session
ShortSession == Len(console_requests) < MaxReplRequests
ReplNext ==
    \/ ShortSession /\ SetValueCommand
    \/ ShortSession /\ ThreadCommand
    \/ ShortSession /\ FlowCommand
    \/ ShortSession /\ GoCommand
    \/ ShortSession /\ ConditionCommand
    \/ ShortSession /\ PrintCommand

\* --------------------------- continue, next, stepBack, reverseContinue, terminate
FlowRequests == {"continue", "next", "stepBack", "reverseContinue", "terminate"}

\* run(is_step): the command continue() and step() send.
run(is_step) == IF is_step THEN "step-over" ELSE "continue"
\* stepBack() and reverseContinue() of the runtime.
stepBack == "step_back"
reverseContinue == "reverse_continue"

\* The command the runtime method of a request hands to send_command.
RuntimeCommand(request) ==
    CASE request = "continue" -> run(FALSE)
      [] request = "next" -> run(TRUE)
      [] request = "stepBack" -> stepBack
      [] request = "reverseContinue" -> reverseContinue
      [] request = "terminate" -> "stop"

\* continueRequest, nextRequest, stepBackRequest, reverseContinueRequest and
\* terminateRequest: the runtime method, then the response.  run() sends
\* nothing while the runtime is not connected.
FlowRequest ==
    \E request \in FlowRequests :
        /\ dap_requests < MaxDapRequests
        /\ dap_requests' = dap_requests + 1
        /\ responses' = Append(responses, Response(request, <<>>, <<>>, ""))
        /\ IF request \in {"continue", "next"} /\ ~connected
           THEN UNCHANGED <<calls, sent>>
           ELSE Untokenized(send_command(RuntimeCommand(request)))
        /\ UNCHANGED <<connection, connected, token_count, token_callbacks, breakPoints,
                       current_local_variables, current_generator_variables,
                       current_generator_names, current_breakpoint_instance_id,
                       current_filename, current_line_num, immediate, sessionVars,
                       invoked, answered, faults, breaks, last_break, frames, last_frame,
                       consoleVars, data_requests, data_breakpoints, functionVars>>

FlowNext ==
    \/ Connect
    \/ Message
    \/ RunImmediate
    \/ FlowRequest

\* ------------------------------------------------ transport (launch, close)
\* launchRequest: awaits this._runtime.start, which registers the handlers of
\* the WebSocket client, calls connect on it and returns without waiting for
\* either event; then sendResponse(response) acknowledges the launch.
LaunchRequest ==
    /\ ws.state = "idle"
    /\ dap_requests < MaxDapRequests
    /\ dap_requests' = dap_requests + 1
    /\ ws' = [ws EXCEPT !.state = "connecting"]
    /\ responses' = Append(responses, Response("launch", <<>>, <<>>, ""))
    /\ UNCHANGED <<adapterVars, consoleVars, data_requests, data_breakpoints, bp_entry,
                   breakpoints_result, stack_frame, scope_ids, variableVars, tableVars>>

\* The "connectFailed" handler of start: vscode.window.showErrorMessage.
ConnectFailed ==
    /\ ws.state = "connecting"
    /\ ~connection
    /\ ws' = [state |-> "failed",
              shown |-> Append(ws.shown, "Unable to connect to simulator")]
    /\ UNCHANGED <<adapterVars, consoleVars, requestVars, bp_entry, breakpoints_result,
                   stack_frame, scope_ids, variableVars, tableVars>>

\* The "connect" event of the client that launchRequest started.
Opened == ws.state = "connecting" /\ Connect

\* The "close" handler of the connection: this.sendEvent('end').
Close ==
    /\ connection
    /\ ws.state = "connecting"
    /\ ws' = [ws EXCEPT !.state = "closed"]
    /\ immediate' = sendEvent(immediate, "end", -1, ResponsePayload)
    /\ UNCHANGED <<connection, connected, token_count, token_callbacks, breakPoints,
                   current_local_variables, current_generator_variables,
                   current_generator_names, current_breakpoint_instance_id,
                   current_filename, current_line_num, sessionVars, observerVars,
                   consoleVars, requestVars, bp_entry, breakpoints_result, stack_frame,
                   scope_ids, variableVars, tableVars>>

\* A frame arrives on a connection that has not closed.
Delivered == ws.state # "closed" /\ Message

TransportNext ==
    \/ LaunchRequest
    \/ Opened
    \/ ConnectFailed
    \/ Close
    \/ Delivered
    \/ RunImmediate

\* ------------------------------------------- protocol errors of the server
\* A break event whose payload has no `filename`: payload["filename"] reads
\* undefined.
NoFilenameFrames ==
    {[f EXCEPT !.payload = [f.payload EXCEPT !.filename = Undefined]] : f \in BreakFrames}
\* A text frame cut short, which JSON.parse rejects.  The fields are those of
\* the message it was cut from; a handler that parses the text never sees them.
NotJSONFrames == {[f EXCEPT !.utf8Data = "{"] : f \in BreakFrames \cup ResponseFrames}

MessageNoFilename == \E frame \in NoFilenameFrames : OnMessage(frame)
MessageNotJSON == \E frame \in NotJSONFrames : OnMessage(frame)

ProtocolNext ==
    \/ Connect
    \/ Message
    \/ MessageNoFilename
    \/ MessageNotJSON
    \/ RunImmediate

\* ------------------------------------ break events that list their instances
MaxInstances == 2  \* entries of payload.instances of one break event
\* One entry of payload.instances; the local variables tell the entries of one
\* event apart.
WireInstance(i, k) ==
    [instance_id |-> i, instance_name |-> InstanceName(i), breakpoint_id |-> 0,
     namespace_id |-> 0, bp_type |-> "normal",
     local |-> [a |-> toString(k)], generator |-> [a |-> toString(k)]]
InstanceLists ==
    UNION {[1..n -> InstanceIds] : n \in 1..MaxInstances}
\* The payload of a break event that lists the instances it stopped, each with
\* its own variables: the payload itself has no `local` and no `instance_id`.
WirePayloads ==
    {[filename |-> "/tmp/test.py", line_num |-> 1,
      instances |-> [k \in 1..Len(ids) |-> WireInstance(ids[k], k)]] : ids \in InstanceLists}
WireFrames ==
    {[utf8Data |-> "json", type |-> "breakpoint", token |-> "", status |-> "success",
      payload |-> p, bps |-> <<>>] : p \in WirePayloads}

MessageInstances == \E frame \in WireFrames : OnMessage(frame)

InstancesNext ==
    \/ Connect
    \/ Message
    \/ MessageInstances
    \/ RunImmediate

\* ------------------------------------------ the stack of several scopes
MaxScopes == 3  \* calls of add_frame_info that fill the maps of one break
\* add_frame_info called for each payload of a list, on cleared maps.
RECURSIVE addFrames(_, _)
addFrames(maps, payloads) ==
    IF payloads = <<>> THEN maps
    ELSE addFrames(add_frame_info(maps, Head(payloads)), Tail(payloads))
ScopeLists == UNION {[1..n -> BreakPayloads] : n \in 1..MaxScopes}
\* The break context after add_frame_info has run for each payload of a list:
\* an instance named more than once has a scope for each time.
ScopesInit ==
    /\ IdleInit /\ ConsoleInit /\ DapInit
    /\ \E payloads \in ScopeLists :
          LET maps == addFrames(<<<<>>, <<>>, <<>>>>, payloads)
              last == payloads[Len(payloads)]
          IN /\ current_local_variables = maps[1]
             /\ current_generator_variables = maps[2]
             /\ current_generator_names = maps[3]
             /\ current_breakpoint_instance_id = parseInt(last.instance_id)
             /\ current_filename = last.filename
             /\ current_line_num = parseInt(last.line_num)
             /\ breaks = 1
             /\ last_break = last

\* ------------------------------- variablesRequest on the maps of a break
MaxHandleRequests == 4  \* DAP requests of a session that asks for variables

\* A break whose local scope holds a member of an object next to a scalar.
DottedName == "b.c"
NestedFrame ==
    [utf8Data |-> "json", type |-> "breakpoint", token |-> "", status |-> "success",
     payload |-> [Payload(0, 1, "normal", "") EXCEPT
                     !.local = [name \in {"a", DottedName} |-> "1"]],
     bps |-> <<>>]
\* The break events of a session: the ones of the simulator, and that one.
MessageBreak ==
    \E frame \in {f \in BreakFrames : f.token = ""} \cup {NestedFrame} : OnMessage(frame)

\* The characters of a name of a payload; a name without a dot is one piece.
Characters(name) == IF name = DottedName THEN <<"b", ".", "c">> ELSE <<name>>

\* The entries vars.forEach visits, each name in its pieces.
RECURSIVE ObjectEntries(_, _)
ObjectEntries(object, keys) ==
    IF keys = {} THEN <<>>
    ELSE LET k == CHOOSE key \in keys : TRUE
         IN <<<<split(Characters(k)), object[k]>>>> \o ObjectEntries(object, keys \ {k})

\* `${id}-${instance_id}-${frame_id}` of scopesRequest.
ScopeHandle(id, ids) == [id |-> <<id>>, instance_id |-> ids[1], stack_id |-> ids[2], suffix |-> ""]

\* scopesRequest on the id of a frame that a stackTrace response has carried:
\* it creates the handles of the three scopes of the frame.
ScopesOfFrame ==
    \E i \in 1..Len(responses) :
        /\ responses[i].command = "stackTrace"
        /\ \E f \in 1..Len(responses[i].stackFrames) :
              LET ids == get_instance_frame_id(responses[i].stackFrames[f].index)
              IN variable_handles' = variable_handles \o
                     <<ScopeHandle("local", ids), ScopeHandle("generator", ids),
                       ScopeHandle("global", ids)>>
        /\ dap_requests < MaxHandleRequests
        /\ dap_requests' = dap_requests + 1
        /\ responses' = Append(responses, Response("scopes", <<>>, <<>>, ""))
        /\ UNCHANGED <<adapterVars, consoleVars, data_requests, data_breakpoints, bp_entry,
                       breakpoints_result, stack_frame, scope_ids, scope_vars, var_mapping,
                       listed, set_variable_requests, tableVars, transportVars>>

\* variablesRequest read against the maps of the runtime.  The sanity check
\* answers an empty list for an instance the local map does not hold.  The
\* scope is instance_vars[stack_id]: beyond the scopes stored it is undefined
\* and vars.forEach throws, before any response.  The global scope has no
\* variable.  The first level of the generator scope is listed as that of the
\* local scope is.
VariablesOfBreak ==
    \E reference \in 1..Len(variable_handles) :
        LET handle == variable_handles[reference]
            is_generator == handle.id = <<"generator">> \/ handle.suffix = "generator"
            maps == IF is_generator THEN current_generator_variables
                    ELSE current_local_variables
            available == OMapHas(current_local_variables, handle.instance_id)
            reads == available /\ handle.id # <<"global">> /\ OMapHas(maps, handle.instance_id)
            instance_vars == IF reads THEN OMapGet(maps, handle.instance_id) ELSE <<>>
            throws == reads /\ handle.stack_id >= Len(instance_vars)
            scope_entries == IF reads /\ ~throws
                    THEN LET scope == instance_vars[handle.stack_id + 1]
                         IN ObjectEntries(scope, DOMAIN scope)
                    ELSE <<>>
            acc == forEachVariable(scope_entries,
                       [handles |-> {}, variables |-> <<>>, table |-> variable_handles,
                        mapping |-> var_mapping],
                       IF handle.id = <<"generator">> THEN <<"local">> ELSE handle.id,
                       reference)
        IN /\ dap_requests < MaxHandleRequests
           /\ dap_requests' = dap_requests + 1
           /\ IF throws
              THEN /\ faults' = faults + 1
                   /\ UNCHANGED <<responses, variable_handles, var_mapping, listed>>
              ELSE /\ responses' = Append(responses,
                          [command |-> "variables", threads |-> <<>>, dataId |-> <<>>,
                           description |-> "", instance_id |-> handle.instance_id,
                           scope |-> handle.id, variables |-> acc.variables])
                   /\ variable_handles' = acc.table
                   /\ var_mapping' = acc.mapping
                   /\ listed' = listed \o acc.variables
                   /\ UNCHANGED faults
           /\ UNCHANGED <<runtimeVars, sessionVars, calls, sent, invoked, answered, breaks,
                          last_break, frames, last_frame, consoleVars, data_requests,
                          data_breakpoints, bp_entry, breakpoints_result, stack_frame,
                          scope_ids, scope_vars, set_variable_requests, tableVars,
                          transportVars>>

HandlesNext ==
    \/ Connect
    \/ MessageBreak
    \/ StackTraceRequest
    \/ ScopesOfFrame
    \/ VariablesOfBreak

\* --------------------------- setBreakPointsRequest, the loop and its response
MaxEntries == 2   \* entries of args.breakpoints of one setBreakpoints request

\* The entries the loop handles, each with what verifyBreakpoint returned for
\* it, and the lists args.breakpoints can be.
LoopEntries ==
    {[line |-> l, column |-> c, condition |-> e, bps |-> v] :
        l \in Lines, c \in {-1, 1}, e \in {"", "a > 1"},
        v \in {<<>>, <<0>>, <<1>>, <<0, 1>>}}
ArgsBreakpoints == UNION {[1..n -> LoopEntries] : n \in 0..MaxEntries}

\* A request that never carries a condition.
withoutCondition(expr) == ""
\* if (expr) payload["payload"]["condition"] = expr; "" is a request without
\* the field.
payloadCondition(expr) == IF Truthy(expr) THEN expr ELSE ""
\* What setBreakpoint(breakpoint_id, expr) hands to send_payload.
setBreakpoint(breakpoint_id, expr) ==
    [request |-> TRUE, type |-> "breakpoint-id", token |-> "", command |-> "add",
     id |-> breakpoint_id, line_num |-> -1, condition |-> payloadCondition(expr)]

NoLoopResult == [done |-> FALSE, turn |-> 0, breakpoints |-> <<>>]

\* One turn of the loop over args.breakpoints, for the entry after the ones
\* handled: verifyBreakpoint has returned entry.bps, which takes a response of
\* the simulator and so a connection; the breakpoints are pushed and
\* setBreakpoint sends an add request for each one pushed as verified.
SetBreakPointsTurn ==
    /\ connection
    /\ ~breakpoints_result.done
    /\ breakpoints_result.turn < Len(bp_entry)
    /\ LET entry == bp_entry[breakpoints_result.turn + 1]
           kept == Kept(entry)
           adds == [k \in 1..Len(kept) |-> setBreakpoint(kept[k], entry.condition)]
       IN /\ breakpoints_result' =
                 [breakpoints_result EXCEPT
                     !.turn = @ + 1,
                     !.breakpoints = IF Len(entry.bps) = 0
                                     THEN Append(@, Breakpoint(FALSE, -1))
                                     ELSE @ \o [k \in 1..Len(kept) |->
                                                   Breakpoint(TRUE, kept[k])]]
          /\ calls' = calls \o adds
          /\ sent' = IF connection THEN sent \o adds ELSE sent
    /\ UNCHANGED <<runtimeVars, sessionVars, invoked, answered, faults, breaks, last_break,
                   frames, last_frame, consoleVars, requestVars, bp_entry, stack_frame,
                   scope_ids, handlerVars>>

\* After the loop: response.body = {breakpoints: breakpoints_result} and
\* sendResponse.
SetBreakPointsResponse ==
    /\ ~breakpoints_result.done
    /\ breakpoints_result.turn = Len(bp_entry)
    /\ breakpoints_result' = [breakpoints_result EXCEPT !.done = TRUE]
    /\ dap_requests' = dap_requests + 1
    /\ responses' = Append(responses,
           [command |-> "setBreakpoints", threads |-> <<>>, dataId |-> <<>>,
            description |-> "", breakpoints |-> breakpoints_result.breakpoints])
    /\ UNCHANGED <<adapterVars, consoleVars, data_requests, data_breakpoints, bp_entry,
                   stack_frame, scope_ids, handlerVars>>

LoopInit ==
    /\ AdapterInit /\ ConsoleInit /\ RequestInit /\ HandlerInit
    /\ bp_entry \in ArgsBreakpoints
    /\ breakpoints_result = NoLoopResult
    /\ stack_frame = NoStackFrame
    /\ scope_ids = <<>>

LoopNext ==
    \/ Connect
    \/ SetBreakPointsTurn
    \/ SetBreakPointsResponse

Spec == Init /\ [][Next]_vars
SessionSpec == Init /\ [][SessionNext]_vars
ReportSpec == ReportInit /\ [][SetBreakPointsEntry]_vars
FrameIdSpec == FrameIdInit /\ [][FrameIdNext]_vars
ConsoleSpec == Init /\ [][ConsoleNext]_vars
ReplSpec == Init /\ [][ReplNext]_vars
StackSpec == Init /\ [][StackNext]_vars
VariablesSpec == VariablesInit /\ [][VariablesNext]_vars
ParseSpec == ParseInit /\ [][ParseLocal]_vars
IndexSpec == IndexInit /\ [][IndexFilenames]_vars
FlowSpec == Init /\ [][FlowNext]_vars
\* The event loop of node runs every callback that setImmediate queued.
TransportSpec == Init /\ [][TransportNext]_vars /\ WF_vars(RunImmediate)
ProtocolSpec == Init /\ [][ProtocolNext]_vars
InstancesSpec == Init /\ [][InstancesNext]_vars
ScopesSpec == ScopesInit /\ [][StackTraceRequest]_vars
HandlesSpec == Init /\ [][HandlesNext]_vars
LoopSpec == LoopInit /\ [][LoopNext]_vars

\* =============================================================== properties
BreakContext == <<current_local_variables, current_generator_variables,
                  current_generator_names, current_breakpoint_instance_id,
                  current_filename, current_line_num>>
\* What a step handed to the IDE.
Emitted == SubSeq(ide_events', Len(ide_events) + 1, Len(ide_events'))
IsStopped(e) == e.event = "stopped"
BreakNotifications == {"stopOnBreakpoint", "stopOnDataBreakpoint", "stopOnException"}
ExpectedReason(payload) == IF payload.bp_type = "data" THEN "data breakpoint"
                           ELSE "breakpoint"
InvokedFor(t) == {i \in 1..Len(invoked) : invoked[i].token = t}

\* C1: the token registry holds exactly the tokens of the requests made and
\* not yet answered, and every answered token had its continuation invoked
\* exactly once.
C1_RegistryHoldsUnansweredTokens ==
    /\ Pending = Issued \ answered
    /\ \A t \in answered : Cardinality(InvokedFor(t)) = 1

\* C2: every request written to the socket carries a token, and no two of
\* them carry the same token.
C2_EveryRequestHasUniqueToken ==
    \A i \in 1..Len(sent) :
        /\ Truthy(sent[i].token)
        /\ \A j \in 1..Len(sent) : j # i => sent[j].token # sent[i].token

\* C3: a frame of type "breakpoint" goes to on_breakpoint whatever token it
\* carries, and leaves the registry, the continuations and the fault count
\* alone; any other frame never reaches on_breakpoint, does nothing without a
\* token, and with a token touches no registry entry but that token's.
C3_BreakFramesBypassTokens ==
    [][\A f \in Frames :
          (OnMessage(f) /\ Truthy(f.utf8Data)) =>
              IF f.type = "breakpoint"
              THEN /\ UNCHANGED <<token_callbacks, invoked, answered, faults>>
                   /\ breaks' = breaks + 1
                   /\ last_break' = f.payload
              ELSE /\ UNCHANGED <<breaks, last_break, immediate, BreakContext>>
                   /\ \A t \in Pending \ {f.token} :
                          /\ MapHas(token_callbacks', t)
                          /\ MapGet(token_callbacks', t) = MapGet(token_callbacks, t)
                   /\ ~Truthy(f.token) =>
                          UNCHANGED <<token_callbacks, invoked, answered, faults>>
      ]_vars

\* C3, its case: the frame handled last was a break event carrying a token
\* that is in the registry.
C3_BreakFrameWithPendingToken ==
    /\ last_frame.handled
    /\ last_frame.type = "breakpoint"
    /\ last_frame.token \in Pending
    /\ breaks >= 1

\* C4: with two or more requests pending, a response runs the continuation
\* registered under its own token, with its own status.
C4_ResponsesCorrelateByToken ==
    [][\A f \in ResponseFrames :
          (OnMessage(f) /\ Cardinality(Pending) >= 2 /\ f.token \in Pending) =>
              /\ Len(invoked') = Len(invoked) + 1
              /\ invoked'[Len(invoked')].token = f.token
              /\ invoked'[Len(invoked')].callback = MapGet(token_callbacks, f.token)
              /\ invoked'[Len(invoked')].status = f.status
      ]_vars

\* C5: a response whose token has no registry entry is dropped: no
\* continuation runs, no fault is raised, registry and session state stay.
C5_UnknownTokenDroppedSilently ==
    [][\A f \in ResponseFrames :
          (OnMessage(f) /\ Truthy(f.token) /\ f.token \notin Pending) =>
              UNCHANGED <<token_callbacks, invoked, faults, connected, breakPoints,
                          BreakContext, sessionVars>>
      ]_vars

\* C6: an "error" response for a pending token resolves that token's waiter,
\* as a failure, removes its entry and only its entry, and leaves the break
\* context and the breakpoint table alone.
C6_ErrorResolvesOnlyItsWaiter ==
    [][\A f \in ResponseFrames :
          (OnMessage(f) /\ f.status = "error" /\ f.token \in Pending) =>
              /\ Len(invoked') = Len(invoked) + 1
              /\ invoked'[Len(invoked')].token = f.token
              /\ invoked'[Len(invoked')].outcome \in {"failed", "rejected", "empty"}
              /\ Pending' = Pending \ {f.token}
              /\ UNCHANGED <<BreakContext, breakPoints>>
      ]_vars

\* C7: once the transport is connected the server has received every payload
\* passed to send_payload, in the order of the calls.
C7_NoPayloadLostOrReordered == connection => sent = calls

C9_BreakResetsIndexAndSetValues ==
    [][parsed' # parsed => (current_instance_index' = 0 /\ set_values' = {})]_vars

\* C10: the notification of a break event hands the IDE one stopped event per
\* instance of that event, for the thread of that instance, with reason
\* "data breakpoint" when the instance stopped at a data breakpoint and
\* "breakpoint" otherwise, also when a later break event was ingested first.
C10_StoppedEventsPerInstance ==
    [][(RunImmediate /\ Head(immediate).event \in BreakNotifications) =>
          SelectSeq(Emitted, IsStopped) =
              <<StoppedEvent(ExpectedReason(Head(immediate).cause),
                             Head(immediate).cause.instance_id)>>
      ]_vars

\* The breakpoints inserted in the simulator, as the requests written to the
\* socket leave them: an id is inserted by a breakpoint-id add and taken out
\* by a later remove request.
IsRemove(e) == e.type \in {"breakpoint", "breakpoint-id"} /\ e.command = "remove"
IsAdd(e) == e.type = "breakpoint-id" /\ e.command = "add"
ListNormalOf(socket) ==
    {socket[i].id : i \in {j \in 1..Len(socket) :
                             /\ IsAdd(socket[j])
                             /\ \A k \in (j + 1)..Len(socket) : ~IsRemove(socket[k])}}
ListNormal == ListNormalOf(sent)
WaitsFor(callback) == {t \in Pending : MapGet(token_callbacks, t) = callback}

\* C13: when a bp-location response answers a pending verifyBreakpoint with
\* breakpoint ids, every one of these ids is in the breakpoint table from that
\* step on.
C13_VerifiedIdsEnterTable ==
    [][\A f \in ResponseFrames :
          (OnMessage(f) /\ f.status = "success" /\ f.token \in WaitsFor("verifyBreakpoint")) =>
              \A i \in 1..Len(f.bps) : f.bps[i] \in DOMAIN breakPoints'
      ]_vars

\* C14: clearBreakpoints on a connected runtime writes the request that
\* removes the breakpoints of the file to the socket, so that none of them
\* stays inserted in the simulator, and leaves none in the breakpoint table.
C14_ClearEmptiesServerAndTable ==
    [][(ClearBreakpoints /\ connection) =>
          /\ Len(sent') = Len(sent) + 1
          /\ IsRemove(sent'[Len(sent')])
          /\ ListNormal' = {}
          /\ DOMAIN breakPoints' = {}
      ]_vars

\* C15: a setBreakpoints handling opens with clearBreakpoints; whenever it
\* waits for the acknowledgement of the removal, its remove-by-file request
\* has been handed to send_payload under the token it waits for.
C15_RemoveSentBeforeLocations ==
    \A t \in WaitsFor("sendRemoveBreakpoints") :
        \E i \in 1..Len(calls) : calls[i].token = t /\ IsRemove(calls[i])

\* C17: an error response to a pending verifyBreakpoint makes it return the
\* empty list: the continuation runs, the caller is not failed, no fault is
\* raised, the table is unchanged and no breakpointValidated is queued.
C17_VerifyErrorReturnsEmptyList ==
    [][\A f \in ResponseFrames :
          (OnMessage(f) /\ f.status = "error" /\ f.token \in WaitsFor("verifyBreakpoint")) =>
              /\ Len(invoked') = Len(invoked) + 1
              /\ invoked'[Len(invoked')].outcome = "empty"
              /\ UNCHANGED <<faults, breakPoints, immediate>>
      ]_vars

\* C16: an entry whose verification returned one or more breakpoints is
\* reported as its first breakpoint alone when it names no column, and as all
\* of them when it names one; setBreakpoint is called for the reported ones.
C16_ColumnDecidesHowManyReported ==
    (breakpoints_result.done /\ Len(bp_entry.bps) >= 1) =>
        LET expected == IF bp_entry.column = -1 THEN <<bp_entry.bps[1]>> ELSE bp_entry.bps
        IN /\ breakpoints_result.breakpoints =
                  [k \in 1..Len(expected) |-> Breakpoint(TRUE, expected[k])]
           /\ breakpoints_result.set =
                  [k \in 1..Len(expected) |-> [id |-> expected[k], expr |-> bp_entry.condition]]

\* C16, its case: an entry with a column whose verification returned two
\* breakpoints or more has been reported.
C16_ColumnEntryWithSeveralBreakpoints ==
    /\ breakpoints_result.done
    /\ bp_entry.column # -1
    /\ Len(bp_entry.bps) >= 2
    /\ Len(breakpoints_result.breakpoints) = Len(bp_entry.bps)

\* C20: what scopesRequest reads out of a frame id is the instance id and the
\* stack index the frame id was made of.
C20_FrameIdRoundTrips ==
    scope_ids # <<>> => scope_ids = <<stack_frame.instance_id, stack_frame.stack_index>>

\* A step that takes a DAP request in, and the break context as one break
\* event leaves it: the threads, the keys of the per-instance maps and the
\* current file and line are those of the break event ingested last.
DapRequest == dap_requests' = dap_requests + 1
ThreadIds == {threads[i].id : i \in 1..Len(threads)}
ContextOfLastBreak ==
    /\ ThreadIds = {last_break.instance_id}
    /\ OMapKeys(current_local_variables) = {last_break.instance_id}
    /\ OMapKeys(current_generator_names) = {last_break.instance_id}
    /\ current_filename = last_break.filename
    /\ current_line_num = last_break.line_num

\* C11: once a break event has been ingested, every DAP request is handled
\* against a break context that is wholly that of the last break event.
C11_RequestsSeeWholeBreak ==
    [][(DapRequest /\ breaks >= 1) => ContextOfLastBreak]_vars

\* C12: the response to a threads request carries one thread, the placeholder
\* before any break event and afterwards the thread of the instance of the
\* break event ingested last.
C12_ThreadsAreLastBreaksInstances ==
    [][ThreadsRequest =>
          LET body == responses'[Len(responses')].threads
          IN /\ Len(body) = 1
             /\ body[1].id = IF breaks = 0 THEN 0 ELSE last_break.instance_id
      ]_vars

\* The entries of a handling that addDataBreakPoint accepted.
Accepted(h) ==
    {<<DataIdInstance(h.args[k]), DataIdVar(h.args[k])>> :
        k \in {j \in 1..Len(h.verified) : h.verified[j]}}

\* C18: when the handler of a setDataBreakpoints request returns, the data
\* breakpoints inserted in the simulator are the entries it accepted.
C18_InstalledAreThisRequests ==
    [][\A h \in 1..Len(data_requests) :
          (~data_requests[h].returned /\ data_requests'[h].returned) =>
              data_breakpoints' = Accepted(data_requests'[h])
      ]_vars

\* C19: dataBreakpointInfo on a variable of an instance answers with the
\* dataId of the pair when validateDataBreakpoint finds it valid, and with
\* "Invalid data breakpoint" and no dataId when it does not.
C19_DataIdIffValid ==
    [][\A i \in InstanceIds, n \in DataVarNames :
          DataBreakpointInfoRequest(i, n) =>
              /\ Len(responses') = Len(responses) + 1
              /\ LET r == responses'[Len(responses')]
                 IN IF validateDataBreakpoint(getCurrentGeneratorNames, i, n)
                    THEN r.dataId = DataId(i, n)
                    ELSE r.dataId = <<>> /\ r.description = "Invalid data breakpoint"
      ]_vars

\* C21: after a break event, the stack of an instance has one frame per scope
\* the break stored for it, the frame of scope s has the id instance * 2^13 + s
\* and the file and line of the break; the stack of any other instance is empty.
IsStackTrace(r) == r.command = "stackTrace"
C21_StackHasOneFramePerScope ==
    [][(breaks >= 1 /\ Len(responses') = Len(responses) + 1
            /\ IsStackTrace(responses'[Len(responses')]))
        => LET r == responses'[Len(responses')]
           IN IF r.threadId = last_break.instance_id
              THEN /\ r.totalFrames = 1
                   /\ Len(r.stackFrames) = 1
                   /\ r.stackFrames[1].index = r.threadId * 2^StackBits + 0
                   /\ r.stackFrames[1].file = last_break.filename
                   /\ r.stackFrames[1].line = last_break.line_num
              ELSE r.totalFrames = 0 /\ r.stackFrames = <<>>]_vars
\* After a second break, the stack of its instance and of the instance of the
\* break before it were both asked.
C21_StackAfterSecondBreak ==
    \E i, j \in 1..Len(responses) :
        /\ IsStackTrace(responses[i]) /\ IsStackTrace(responses[j])
        /\ responses[i].seen = 2 /\ responses[j].seen = 2
        /\ responses[i].totalFrames = 1 /\ responses[j].totalFrames = 0
        /\ responses[j].threadId \in InstanceIds

\* C22: the name setVariable gives to the set-value request, rebuilt along the
\* chain of parents, is the flat key of the variable the IDE was shown,
\* whatever its depth (an index shown as [n] read as the piece n).
Unbracket(piece) == IF piece = Bracket("0") THEN "0" ELSE IF piece = Bracket("1") THEN "1" ELSE piece
PlainName(name) == [i \in 1..Len(name) |-> Unbracket(name[i])]
C22_SetVariableNamesTheFlatKey ==
    \A i \in 1..Len(set_variable_requests) :
        PlainName(set_variable_requests[i].var_name) = set_variable_requests[i].key

\* C23: for a well-formed flat map, the tree of parse_local flattened again has
\* exactly the normalized keys of the map (normalizing twice changes nothing),
\* and a leaf whose value is a string of digits holds that integer.
RECURSIVE Flattened(_, _)
Flattened(node, path) ==
    IF node.kind = "dict"
    THEN UNION {Flattened(node.at[k], Append(path, k)) : k \in DOMAIN node.at}
    ELSE IF node.kind = "list"
         THEN UNION {Flattened(node.at[i], Append(path, toString(i - 1))) :
                        i \in 1..Len(node.at)}
         ELSE {<<path, node.kind, IF node.kind = "int" THEN toString(node.at) ELSE node.at>>}
LeafOf(entry) ==
    <<split(Normalized(entry[1])), IF IsDigit(entry[2]) THEN "int" ELSE "str", entry[2]>>
\* The entries no later entry of the same normalized key overwrites.
LastWrites(entries) ==
    {i \in 1..Len(entries) :
        \A j \in (i + 1)..Len(entries) : Normalized(entries[j][1]) # Normalized(entries[i][1])}
C23_TreeFlattensToNormalizedKeys ==
    local_vars.parsed =>
        /\ Flattened(local_vars.tree, <<>>) =
               {LeafOf(instance_local[i]) : i \in LastWrites(instance_local)}
        /\ \A i \in 1..Len(instance_local) :
               Normalized(Normalized(instance_local[i][1])) = Normalized(instance_local[i][1])
\* A map with an array of two elements and a digit value was parsed.
C23_ArrayOfTwoParsed ==
    /\ local_vars.parsed
    /\ \E i, j \in 1..Len(instance_local) :
           /\ instance_local[i][1] = <<"a", "[", "0", "]">>
           /\ instance_local[j][1] = <<"a", "[", "1", "]">>
           /\ instance_local[i][2] = "1"

\* C24: the forward map has a basename as a key exactly when one path of the
\* list has it, and maps it to that path; every path of the list maps to
\* itself; the reverse map sends a path to its basename exactly when no other
\* path has that basename.
Sharing(list, base) == {i \in 1..Len(list) : basename(list[i]) = base}
C24_IndexShortensUnambiguousBasenames ==
    filename_map.indexed =>
        LET result == filename_map.result
            paths == {filenames[i] : i \in 1..Len(filenames)}
            bases == {basename(p) : p \in paths}
            alone == {b \in bases : Cardinality(Sharing(filenames, b)) = 1}
        IN /\ DOMAIN result = paths \cup alone
           /\ \A p \in paths : result[p] = p
           /\ \A b \in alone : \E i \in Sharing(filenames, b) : result[b] = filenames[i]
           /\ DOMAIN shortened_map = {p \in paths : basename(p) \in alone}
           /\ \A p \in DOMAIN shortened_map : shortened_map[p] = basename(p)
\* A list with three paths of one basename and the index built from it.
C24_ThreePathsShareBasename ==
    /\ filename_map.indexed
    /\ \E b \in {basename(p) : p \in FullPaths} : Cardinality(Sharing(filenames, b)) = 3

\* C25: `p v` is forwarded to the server as an evaluation, and not answered
\* from the cached tree, when v was set with success since the last break; when
\* v was not set since the last break and the cached tree resolves it, `p v` is
\* answered from the cache and no request is sent.
CausedBreak(r) == r.type = "command" /\ (r.arg # "jump" \/ r.answer = "success")
SetSinceBreak ==
    {console_requests[i].arg : i \in {k \in 1..Len(console_requests) :
        /\ console_requests[k].type = "set-value"
        /\ console_requests[k].answer = "success"
        /\ \A j \in (k + 1)..Len(console_requests) : ~CausedBreak(console_requests[j])}}
Resolves(expr) == local_vars.parsed /\ expr \in DOMAIN local_vars.tree.at
PrintStep ==
    /\ last_command'.command = "print"
    /\ <<last_command, console_requests>>' # <<last_command, console_requests>>
C25_PrintUsesCacheUnlessSet ==
    [][PrintStep =>
        LET v == last_command'.arg
        IN /\ v \in SetSinceBreak =>
                  /\ last_command'.outcome = "server"
                  /\ Len(console_requests') = Len(console_requests) + 1
                  /\ console_requests'[Len(console_requests')].type = "evaluation"
                  /\ console_requests'[Len(console_requests')].arg = v
           /\ (v \notin SetSinceBreak /\ Resolves(v)) =>
                  /\ last_command'.outcome = "cache"
                  /\ console_requests' = console_requests]_vars

\* C26: `set var=value` with a value that is not a decimal number, or before
\* any break gave a breakpoint id, sends nothing and leaves set_values as it
\* was; otherwise it sends one set-value request, and set_values gains var
\* exactly when the server answers success.
SetStep ==
    /\ last_command'.command = "set"
    /\ <<last_command, console_requests, set_values>>' #
           <<last_command, console_requests, set_values>>
C26_SetRejectsWithoutSending ==
    [][SetStep =>
        LET c == last_command'
        IN IF c.value \notin {toString(n) : n \in 0..MaxNumber} \/ parsed = 0
           THEN /\ c.outcome = "rejected"
                /\ console_requests' = console_requests
                /\ set_values' = set_values
           ELSE /\ c.outcome = "sent"
                /\ Len(console_requests') = Len(console_requests) + 1
                /\ SubSeq(console_requests', 1, Len(console_requests)) = console_requests
                /\ LET r == console_requests'[Len(console_requests')]
                   IN /\ r.type = "set-value" /\ r.arg = c.arg
                      /\ toString(r.value) = c.value
                      /\ set_values' = IF r.answer = "success"
                                       THEN set_values \cup {c.arg} ELSE set_values]_vars
\* A set the server refused, sent after a break: the variable is not recorded.
C26_SetRefusedByServer ==
    /\ last_command.command = "set" /\ last_command.outcome = "sent"
    /\ console_requests[Len(console_requests)].answer = "error"
    /\ last_command.arg \notin set_values

\* C27 as stated: main_loop awaits a break event after a command exactly when
\* the command is continue, step-over, step-back, reverse-continue or go.
AwaitingCommands == {"continue", "step_over", "step_back", "reverse_continue"}
ClaimedCommand(request) ==
    CASE request = "continue" -> "continue"
      [] request = "next" -> "step_over"
      [] request = "stepBack" -> "step_back"
      [] request = "reverseContinue" -> "reverse_continue"
      [] request = "terminate" -> "stop"
C28_FlowRequestSendsItsCommand ==
    [][(connected /\ dap_requests' = dap_requests + 1
            /\ responses'[Len(responses')].command \in FlowRequests)
        => /\ Len(sent') = Len(sent) + 1
           /\ sent'[Len(sent')].type = "command"
           /\ sent'[Len(sent')].command =
                  ClaimedCommand(responses'[Len(responses')].command)]_vars


\* ---- C29
\* The front-end was told that the session is over.
SessionEnded == \E i \in 1..Len(ide_events) : ide_events[i] = TerminatedEvent
\* The launch request was acknowledged (sendResponse, not sendErrorResponse).
LaunchAcknowledged == \E i \in 1..Len(responses) : responses[i].command = "launch"
\* A failed connect shows its reason, and start has failed.
ConnectFailureFailsStart ==
    [](ws.state = "failed" => ws.shown # <<>> /\ ~LaunchAcknowledged)
ConnectFailureEndsSession == (ws.state = "failed") ~> SessionEnded
CloseEndsSession == (ws.state = "closed") ~> SessionEnded
\* C29: a transport failure always ends the session towards the front-end: if
\* the WebSocket cannot connect, start fails with a visible reason and the
\* session ends; if the socket closes mid-session, the terminated event is
\* eventually delivered to the front-end.
C29_TransportFailureEndsSession ==
    /\ ConnectFailureFailsStart
    /\ ConnectFailureEndsSession
    /\ CloseEndsSession


\* ---- C30
\* The step handles the server's answer, of status "error", to the connection
\* request that is still waiting for its answer.
ConnectionRefused ==
    /\ frames' = frames + 1
    /\ last_frame'.type # "breakpoint"
    /\ last_frame'.status = "error"
    /\ last_frame'.token \in Pending
    /\ token_callbacks.entries[last_frame'.token] = "connectRuntime"
\* The continuation of connectRuntime took its error branch: it showed
\* "Failed to connect to a running simulator. Reason: ..." and called stop.
FailureReported ==
    /\ Len(invoked') = Len(invoked) + 1
    /\ invoked'[Len(invoked')].outcome = "failed"
    /\ calls' = Append(calls, send_command("stop"))
\* C30: when the server answers the connection request with status "error",
\* the adapter reports the failure with its reason and ends the session, and
\* it is not in the connected state afterwards.
C30_RefusedConnectionIsReported ==
    [][ConnectionRefused => FailureReported /\ ~connected']_vars


\* ---- C31
\* The events that tell the session of a stop at a break.
StopEvents == {"stopOnBreakpoint", "stopOnDataBreakpoint", "stopOnException"}
\* C31: a break event whose payload lacks `filename` is ignored: the break
\* context and the per-instance maps are those of a break that named its file,
\* and no stop is notified for a payload without one.
C31_BreakWithoutFilenameIgnored ==
    /\ breaks > 0 => last_break.filename # Undefined /\ current_filename # Undefined
    /\ \A i \in 1..Len(immediate) :
          immediate[i].event \in StopEvents => immediate[i].cause.filename # Undefined


\* ---- C32
\* The step handles a text frame that is not JSON.
NotJSONHandled ==
    /\ frames' = frames + 1
    /\ last_frame'.utf8Data \in {f.utf8Data : f \in NotJSONFrames}
InstanceEntries(payload, i) ==
    IF "instances" \in DOMAIN payload
    THEN SelectSeq(payload.instances, LAMBDA e : e.instance_id = i)
    ELSE IF payload.instance_id = i THEN <<payload>> ELSE <<>>
\* The scopes stored for an instance.
StoredScopes(i) ==
    IF OMapHas(current_local_variables, i) THEN OMapGet(current_local_variables, i) ELSE <<>>
\* C33: after a break event the scopes stored for an instance are one per
\* occurrence of the instance in the event, in the order of the payload, the
\* first at index 0; no scope of an earlier event is kept.
C33_ScopesFollowPayloadInstances ==
    breaks > 0 =>
        \A i \in InstanceIds :
            LET entries == InstanceEntries(last_break, i)
            IN /\ Len(StoredScopes(i)) = Len(entries)
               /\ \A k \in 1..Len(entries) : StoredScopes(i)[k] = entries[k].local


KeyPieces(entries) == {split(Normalized(entries[i][1])) : i \in 1..Len(entries)}
ChildNames(entries, path) ==
    {q[Len(path) + 1] : q \in {p \in KeyPieces(entries) : ProperPrefix(path, p)}}
\* The names "0" .. "n-1" for the n names of a set.
Indices(names) == {toString(i) : i \in 0..(Cardinality(names) - 1)}
\* The value the map gives the key of these pieces (its last entry).
ValueOf(entries, path) ==
    LET i == CHOOSE i \in LastWrites(entries) : split(Normalized(entries[i][1])) = path
    IN entries[i][2]
\* The node at a path has the shape the children of the path ask for.
RECURSIVE Shaped(_, _, _)
Shaped(node, entries, path) ==
    LET names == ChildNames(entries, path)
    IN IF names = {}
       THEN LET value == ValueOf(entries, path)
            IN IF IsDigit(value)
               THEN node.kind = "int" /\ node.at = int(value)
               ELSE node.kind = "str" /\ node.at = value
       ELSE IF names = Indices(names)
       THEN /\ node.kind = "list"
            /\ Len(node.at) = Cardinality(names)
            /\ \A i \in 1..Len(node.at) :
                  Shaped(node.at[i], entries, Append(path, toString(i - 1)))
       ELSE /\ node.kind = "dict"
            /\ DOMAIN node.at = names
            /\ \A k \in names : Shaped(node.at[k], entries, Append(path, k))
\* C35: in the tree of a flat map a node is an ordered sequence exactly when
\* the names of its children are "0" .. "n-1", at any depth; any other node is
\* a map that keeps all its children; a leaf of digits is an integer.
C35_ArraysExactlyWhereIndexed ==
    local_vars.parsed => Shaped(local_vars.tree, instance_local, <<>>)
\* The map of a[0][0] and a[0][1] was parsed to an array of an array of two
\* integers.
C35_ArrayOfArraysParsed ==
    /\ local_vars.parsed
    /\ {instance_local[i][1] : i \in 1..Len(instance_local)} =
           {<<"a", "[", "0", "]", "[", "0", "]">>, <<"a", "[", "0", "]", "[", "1", "]">>}
    /\ \A i \in 1..Len(instance_local) : instance_local[i][2] = "1"
    /\ local_vars.tree = DictNode([k \in {"a"} |->
                            ListNode(<<ListNode(<<IntNode(1), IntNode(1)>>)>>)])


\* ---- C36
\* The variables of the response a variables request has just made.
NewListed == SubSeq(listed', Len(listed) + 1, Len(listed'))
\* C36: a variables response lists each child of the handle once: a compound
\* child once, with one new handle, however many flat keys share it, and a
\* leaf once; no name comes twice.
C36_ChildrenListedOnce ==
    [][dap_requests' = dap_requests + 1 =>
          /\ \A i, j \in 1..Len(NewListed) :
                i # j => NewListed[i].name # NewListed[j].name
          /\ Len(variable_handles') - Len(variable_handles) =
                Cardinality({NewListed[i].name : i \in {k \in 1..Len(NewListed) :
                                                   NewListed[k].variablesReference # 0}})]_vars


\* ---- C37
\* The setDataBreakpoints handlings that still wait for the simulator.
Waiting == {h \in 1..Len(data_requests) : ~data_requests[h].returned}
\* C37: every DAP request the adapter handles gets exactly one response, on
\* the success path and on the failure path alike: when the simulator has
\* answered all a handler waits for, the responses are as many as the
\* requests, less the handlings that still wait.
C37_EveryRequestAnsweredOnce ==
    Len(responses) + Cardinality(Waiting) = dap_requests


\* ---- C38
\* C38: at every prompt after a break the cached breakpoint id, scope,
\* namespace id, breakpoint kind and tree of local variables are those of the
\* instance current_instance_index selects in the current break, and the
\* index is a valid one; so after `thread` has selected another instance they
\* are that instance's.
C38_CacheFollowsSelectedInstance ==
    (repl = "prompt" /\ current_breakpoint_resp.present) =>
        LET instances == current_breakpoint_resp.instances
        IN /\ current_instance_index \in 0..(Len(instances) - 1)
           /\ LET instance == instances[current_instance_index + 1]
              IN /\ current_breakpoint_id = instance.breakpoint_id
                 /\ current_scope = toString(instance.breakpoint_id)
                 /\ namespace_id = instance.namespace_id
                 /\ current_breakpoint_type = instance.bp_type
                 /\ local_vars.parsed
                 /\ local_vars.tree = parse_local(instance.local)


\* ---- C39
\* The response a variables request has just been given.
IsVariables(r) == r.command = "variables"
\* C39: a request for the frames, the scopes or the variables of a handle
\* never faults and is always answered, whatever breaks came since the handle
\* was made; the variables of a handle whose instance is not that of the
\* current break are an empty list.
C39_VariablesAnswersStaleHandles ==
    [][dap_requests' = dap_requests + 1 =>
          /\ faults' = faults
          /\ Len(responses') = Len(responses) + 1
          /\ LET r == responses'[Len(responses')]
             IN (IsVariables(r) /\ (breaks = 0 \/ r.instance_id # last_break.instance_id))
                    => r.variables = <<>>]_vars
\* The variables of a handle were asked after a break of another instance
\* than the handle's, and before it the variables of a handle of the current
\* break were listed.
C39_StaleHandleAsked ==
    \E i, j \in 1..Len(responses) :
        /\ i < j
        /\ IsVariables(responses[i]) /\ responses[i].variables # <<>>
        /\ IsVariables(responses[j]) /\ responses[j].variables = <<>>
        /\ responses[j].scope = <<"local">>
        /\ breaks = 2
        /\ responses[j].instance_id # last_break.instance_id
\* The same for a handle that a variables response has made.
C39_StaleNestedHandleAsked ==
    \E j \in 1..Len(responses) :
        /\ IsVariables(responses[j]) /\ responses[j].variables = <<>>
        /\ responses[j].scope = <<"b">>
        /\ breaks = 2
        /\ responses[j].instance_id # last_break.instance_id


\* ---- C40
\* The add requests written to the socket, and the entries of the request
\* with the breakpoints of its response.
AddRequests == {sent[i] : i \in {j \in 1..Len(sent) : sent[j].type = "breakpoint-id"}}
Reported == responses[Len(responses)].breakpoints
VerifiedReported == {i \in 1..Len(Reported) : Reported[i].verified}
\* C40: in a setBreakpoints response the ids reported as verified are the ids
\* an add request was sent for, one request for each and each with the
\* condition of an entry that verified the id, the first id of every entry
\* with that entry's condition; the entries whose verification returned no id
\* give one unverified breakpoint each and no request.
C40_VerifiedAreTheOnesAdded ==
    breakpoints_result.done =>
        /\ {Reported[i].id : i \in VerifiedReported} = {q.id : q \in AddRequests}
        /\ Cardinality(VerifiedReported) =
               Cardinality({j \in 1..Len(sent) : sent[j].type = "breakpoint-id"})
        /\ \A q \in AddRequests :
               \E k \in 1..Len(bp_entry) :
                   /\ \E n \in 1..Len(bp_entry[k].bps) : bp_entry[k].bps[n] = q.id
                   /\ q.condition = bp_entry[k].condition
        /\ \A k \in 1..Len(bp_entry) :
               Len(bp_entry[k].bps) > 0 =>
                   \E q \in AddRequests :
                       q.id = bp_entry[k].bps[1] /\ q.condition = bp_entry[k].condition
        /\ Cardinality({i \in 1..Len(Reported) : ~Reported[i].verified}) =
               Cardinality({k \in 1..Len(bp_entry) : Len(bp_entry[k].bps) = 0})
\* A response that reports a verified breakpoint of an entry with a
\* condition next to the unverified breakpoint of an entry without an id.
C40_VerifiedAndUnverifiedReported ==
    /\ breakpoints_result.done
    /\ Len(bp_entry) = 2
    /\ bp_entry[1].bps = <<>>
    /\ bp_entry[2].bps # <<>> /\ bp_entry[2].condition # ""
    /\ Len(Reported) >= 2
    /\ ~Reported[1].verified /\ Reported[2].verified

====
